---- MODULE Spec2Model ----
(***************************************************************************)
(* Behavioural-assessment web application: the candidate questionnaire     *)
(* runner (CandidateView), the backend rows it reads and writes, the       *)
(* answer-processing webhook, and the result viewer's JSON unwrapping.     *)
(*                                                                         *)
(* Spec       the candidate runner with its backend, webhook, sign-in and  *)
(*            sign-out, and an administrator saving tests and candidates   *)
(*            from another browser.                                        *)
(* SpecParse   the result viewer: safeParseJSON and calculateChartData     *)
(*             applied to bounded result columns.                          *)
(* SpecApp     the session resolver of App: startup session check,         *)
(*             sign-in and sign-out notifications, login form, render      *)
(*             gate, and account creation from the admin console.          *)
(* SpecFetch   fetch-on-mount of the five admin views.                     *)
(* SpecBuilder the test builder (TestsManager).                            *)
(* SpecRoster  the candidate roster (CandidatesList): fetch, dialog, edit   *)
(*             and creation of candidates.                                 *)
(***************************************************************************)
EXTENDS Integers, Sequences, FiniteSets, TLC

VARIABLES
    \* backend store and environment
    profile,          \* the candidate's row of table profiles
    testRow,          \* the assigned test's row of table tests
    adminSaves,       \* number of administrator saves so far
    delivered,        \* POSTs the webhook endpoint has received and answered
    timers,           \* pending setTimeout(onComplete, 4000) callbacks
    \* App
    role,             \* "none" (null), "candidate" or "admin"
    \* CandidateView state
    loading, error, test, alreadyTaken, currentStep, answers,
    isSubmitting, isCompleted, hasSubmittedRef,
    \* asynchronous flows of the mounted CandidateView
    loadPc,           \* position of loadSession: "idle", "profile", "test"
    runs,             \* submitTest runs, by slot
    \* history
    lastLoad,         \* how the latest loadSession step ended
    seenStatus,       \* the profile status the latest loadSession read
    lastTrigger,      \* what the latest call of submitTest did
    \* result viewer
    pInput, pOnce, pTwice, pStage,
    pChart,           \* what calculateChartData returned for the selected row
    \* authentication client (the persisted session and its notifications)
    session,          \* the user of the persisted session, or NoUser
    announce,         \* the client will still announce the recovered session
    sessionRead,      \* what getSession gave checkSession: "pending", "read", "failed"
    authEvents,       \* number of notifications handed to onAuthStateChange
    loginReq,         \* the signInWithPassword request under way, or NoRequest
    tempSession,      \* the session held by the latest transient handle
    signups,          \* accounts registered by auth.signUp so far
    \* App state
    view, candidateId, adminName, adminEmail, email, password,
    isLoading, loginError, isCheckingSession,
    \* administrator console
    adminView,        \* the admin view that is mounted and its fetch-on-mount
    builder,          \* the state of TestsManager
    testsTable,       \* the rows of table tests, newest first
    requests,         \* requests of TestsManager in flight
    profilesTable,    \* the rows of table profiles, newest first
    roster            \* the state of CandidatesList and its requests in flight

vars == << profile, testRow, adminSaves, delivered, timers, role,
           loading, error, test, alreadyTaken, currentStep, answers,
           isSubmitting, isCompleted, hasSubmittedRef, loadPc, runs,
           lastLoad, seenStatus, lastTrigger, pInput, pOnce, pTwice, pStage,
           pChart, session, announce, sessionRead, authEvents, loginReq, tempSession, signups,
           view, candidateId, adminName, adminEmail, email, password,
           isLoading, loginError, isCheckingSession, adminView, builder,
           testsTable, requests, profilesTable, roster >>

backendVars == << profile, testRow, adminSaves, delivered, timers >>
viewVars == << loading, error, test, alreadyTaken, currentStep, answers,
               isSubmitting, isCompleted, hasSubmittedRef >>
parseVars == << pInput, pOnce, pTwice, pStage, pChart >>
runnerVars == << backendVars, viewVars, loadPc, runs, lastLoad, seenStatus,
                 lastTrigger >>
authVars == << session, announce, sessionRead, authEvents, loginReq, tempSession,
              signups >>
appVars == << view, candidateId, adminName, adminEmail, email, password,
              isLoading, loginError, isCheckingSession >>
\* what the runner and the result viewer leave alone
adminVars == << adminView, builder, testsTable, requests, profilesTable, roster >>
consoleVars == << authVars, appVars, adminVars >>

---------------------------------------------------------------------------
(* Bounds *)

\* question ids a test can hold
MaxQuestions == 2
\* POSTs the webhook endpoint receives before no further sign-in is followed
MaxPosts == 2
\* saves an administrator makes while the candidate is working
MaxAdminSaves == 1
\* slots for concurrently running submitTest calls
MaxRuns == 2
\* notifications the authentication client hands to the session resolver
MaxNotifications == 3
\* accounts an administrator creates
MaxSignups == 1

\* the scale buttons 1..5
ScaleMax == 5

QIds == 1..MaxQuestions
Slots == 1..MaxRuns

---------------------------------------------------------------------------
(* Data *)

Statuses == {"pending", "in-progress", "completed"}

NoTestId == "null"
TestIds == {"T1"}

\* JavaScript undefined where an option is expected
Undef == [text |-> "undefined", value |-> "undefined"]

\* The options of a choice question: one with a text and a profile tag, one
\* with an empty text (the builder's default for a new option).
Options ==
    { [text |-> "A", value |-> "Lider"],
      [text |-> "",  value |-> ""] }

\* type and variation of a question
Kinds ==
    { [type |-> "scale",  variation |-> "single"],
      [type |-> "choice", variation |-> "single"],
      [type |-> "choice", variation |-> "most_least"] }

Question(i, k) == [id |-> i, type |-> k.type, variation |-> k.variation]

\* answers[q.id]: undefined, {text, value} or {most, least}
NoAnswer == [kind |-> "none", text |-> "", value |-> "", most |-> Undef, least |-> Undef]
TextValue(t, v) == [kind |-> "tv", text |-> t, value |-> v, most |-> Undef, least |-> Undef]
MostLeast(m, l) == [kind |-> "ml", text |-> "", value |-> "", most |-> m, least |-> l]

\* val.toString() for the scale buttons
NumStr == << "1", "2", "3", "4", "5" >>
ToStr(val) == NumStr[val]

\* question lists the test builder can hold: ids are creation timestamps,
\* new questions are appended, so ids increase along the list
RECURSIVE ListsFrom(_)
ListsFrom(lo) ==
    { << >> } \cup
    UNION { { << Question(i, k) >> \o rest : rest \in ListsFrom(i + 1) }
            : i \in { j \in QIds : j >= lo }, k \in Kinds }

QuestionLists == ListsFrom(1)

MaxId(qs) == IF qs = << >> THEN 0 ELSE qs[Len(qs)].id
IdsOf(qs) == { qs[i].id : i \in 1..Len(qs) }

NoTest == [present |-> FALSE, questions |-> << >>]

\* body is finalPayload.body while the webhook request is under way
IdleRun == [pc |-> "idle", webhook |-> "none", updateIssued |-> FALSE,
            before |-> [status |-> "pending", completed_date |-> "null"],
            body |-> << >>]

---------------------------------------------------------------------------
(* CandidateView: rendering and pure helpers *)

\* Which screen CandidateView (or App, when signed out) renders.  The
\* question screen reads test.questions[currentStep]; with currentStep past
\* the list that read yields undefined and the render throws ("crash").
Screen ==
    IF role # "candidate" THEN "login"
    ELSE IF loading THEN "loading"
    ELSE IF alreadyTaken THEN "taken"
    ELSE IF error # "" \/ ~test.present THEN "error"
    ELSE IF isCompleted THEN "completed"
    ELSE IF currentStep >= Len(test.questions) THEN "crash"
    ELSE "question"

currentQuestion == test.questions[currentStep + 1]

isLastQuestion == currentStep = Len(test.questions) - 1

\* profile.status === 'completed' || profile.status === 'in-progress'
statusTaken_completedOnly(status) == status = "completed"

statusTaken(status) == status \in {"completed", "in-progress"}

\* !testData.active
testInactive_never(row) == FALSE

testInactive(row) == ~row.active

\* canProceed with the most/least comparison left out
canProceed_anyAnswer ==
    IF ~test.present THEN FALSE
    ELSE LET ans == answers[currentQuestion.id]
         IN  ans.kind # "none"

canProceed ==
    IF ~test.present THEN FALSE
    ELSE LET q == currentQuestion
             ans == answers[q.id]
         IN  IF ans.kind = "none" THEN FALSE
             ELSE IF q.type = "scale" THEN TRUE
             ELSE IF q.type = "choice"
                  THEN IF q.variation = "most_least"
                       THEN /\ ans.most # Undef
                            /\ ans.least # Undef
                            /\ ans.most.text # ans.least.text
                       ELSE ans.text # ""
             ELSE FALSE

\* disabled={!canProceed() || isSubmitting || hasSubmittedRef.current}
nextDisabled == ~canProceed \/ isSubmitting \/ hasSubmittedRef

\* handleMostLeast without clearing the other slot
mostLeastAnswer_noClear(prev, type, option) ==
    IF type = "most" THEN MostLeast(option, prev.least)
                     ELSE MostLeast(prev.most, option)

\* The new answers[questionId] of handleMostLeast
mostLeastAnswer(prev, type, option) ==
    IF type = "most"
    THEN MostLeast(option,
                   IF prev.least # Undef /\ prev.least.text = option.text
                   THEN Undef ELSE prev.least)
    ELSE MostLeast(IF prev.most # Undef /\ prev.most.text = option.text
                   THEN Undef ELSE prev.most,
                   option)

\* userAnswer.most read off an undefined userAnswer: a TypeError
payloadThrows(qs, ans) ==
    \E i \in 1..Len(qs) :
        /\ qs[i].type = "choice"
        /\ qs[i].variation = "most_least"
        /\ ans[qs[i].id].kind = "none"

\* qObj.resposta
resposta(q, userAnswer) ==
    IF q.type = "choice" /\ q.variation = "most_least"
    THEN MostLeast(userAnswer.most, userAnswer.least)
    ELSE userAnswer

\* questionsList built from the last question to the first
questionsList_reversed(qs, ans) ==
    [ i \in 1..Len(qs) |->
        [id |-> qs[Len(qs) + 1 - i].id,
         resposta |-> resposta(qs[Len(qs) + 1 - i], ans[qs[Len(qs) + 1 - i].id])] ]

\* questionsList: one entry per question, in the test's order
questionsList(qs, ans) ==
    [ i \in 1..Len(qs) |-> [id |-> qs[i].id, resposta |-> resposta(qs[i], ans[qs[i].id])] ]

\* if (hasSubmittedRef.current) return;   -- the latch left out
latchHeld_never == FALSE

latchHeld == hasSubmittedRef

InFlight(s) == runs[s].pc # "idle"

FreeSlots == { s \in Slots : ~InFlight(s) }

FirstFree == CHOOSE s \in FreeSlots : \A t \in FreeSlots : s <= t

---------------------------------------------------------------------------
(* Initial state *)

InitHistory ==
    /\ lastLoad = "none"
    /\ seenStatus = "none"
    /\ lastTrigger = "none"

\* useState defaults of CandidateView; nothing is mounted while signed out
InitView ==
    /\ loading = TRUE
    /\ error = ""
    /\ test = NoTest
    /\ alreadyTaken = FALSE
    /\ currentStep = 0
    /\ answers = [q \in QIds |-> NoAnswer]
    /\ isSubmitting = FALSE
    /\ isCompleted = FALSE
    /\ hasSubmittedRef = FALSE
    /\ loadPc = "idle"
    /\ runs = [s \in Slots |-> IdleRun]

\* the user of a session: id, user_metadata.role, user_metadata.name, email
NoUser == [id |-> "", role |-> "", name |-> "", email |-> ""]
Users ==
    { [id |-> "a1", role |-> "admin", name |-> "Ana", email |-> "ana@x"],
      [id |-> "a2", role |-> "admin", name |-> "", email |-> ""],
      [id |-> "c1", role |-> "candidate", name |-> "Caio", email |-> "caio@x"],
      [id |-> "c2", role |-> "", name |-> "", email |-> "dani@x"] }

NoRequest == [email |-> "", password |-> ""]

\* useState defaults of App
InitApp ==
    /\ view = "dashboard"
    /\ candidateId = ""
    /\ adminName = ""
    /\ adminEmail = ""
    /\ email = ""
    /\ password = ""
    /\ isLoading = FALSE
    /\ loginError = << >>

\* a candidate that has not started and no request of the runner
InitBackendIdle ==
    /\ profile = [status |-> "pending", completed_date |-> "null",
                  assigned_test_id |-> NoTestId]
    /\ testRow = [active |-> TRUE, questions |-> << >>]
    /\ adminSaves = 0
    /\ delivered = 0
    /\ timers = 0

\* no admin view is mounted
NoView ==
    [name |-> "none", loading |-> FALSE, message |-> "", rows |-> "initial",
     pending |-> 0, outcome |-> "none", trigger |-> "none", fetches |-> 0]

\* the payload of TestsManager.handleSave
Payload(title, description, questions, active) ==
    [title |-> title, description |-> description, questions |-> questions,
     active |-> active]

\* no save of TestsManager is in flight
NoSave ==
    [pending |-> FALSE, editingId |-> 0, payload |-> Payload("", "", << >>, TRUE),
     tests |-> << >>]

\* useState defaults of TestsManager; editingId 0 is null
TestsManagerDefaults ==
    [tests |-> << >>, loading |-> TRUE, errorMsg |-> "", isCreating |-> FALSE,
     isSaving |-> FALSE, editingId |-> 0, title |-> "", description |-> "",
     active |-> TRUE, questions |-> << >>]

\* CandidatesList before it is mounted: useState defaults, nothing in flight
NoRosterSave == [pending |-> FALSE, editingId |-> "", formData |-> [name |-> "", testId |-> ""],
                 candidates |-> << >>]
CandidatesListDefaults ==
    [candidates |-> << >>, loading |-> TRUE, fetchError |-> << >>, showModal |-> FALSE,
     errorMsg |-> << >>, editingId |-> "", formData |-> [name |-> "", testId |-> ""],
     isSubmitting |-> FALSE, fetch |-> FALSE, save |-> NoRosterSave, saves |-> 0]

InitRosterIdle ==
    /\ profilesTable = << >>
    /\ roster = CandidatesListDefaults

InitAdminIdle ==
    /\ adminView = NoView
    /\ builder = TestsManagerDefaults
    /\ testsTable = << >>
    /\ requests = [fetch |-> FALSE, save |-> NoSave, saves |-> 0,
                   edits |-> 0]
    /\ InitRosterIdle

\* no session is persisted and the startup session check has found none
InitConsoleIdle ==
    /\ InitAdminIdle
    /\ session = NoUser
    /\ announce = FALSE
    /\ sessionRead = "read"
    /\ authEvents = 0
    /\ loginReq = NoRequest
    /\ tempSession = NoUser
    /\ signups = 0
    /\ InitApp
    /\ isCheckingSession = FALSE

InitParseIdle ==
    /\ pInput = << >>
    /\ pOnce = << >>
    /\ pTwice = << >>
    /\ pStage = "off"
    /\ pChart = << >>

\* App after the startup session check found no session; the backend holds
\* the candidate's profile and one test in any state the admin console and
\* earlier sessions can leave them in.
Init ==
    /\ profile \in { [status |-> st,
                      completed_date |-> IF st = "completed" THEN "today" ELSE "null",
                      assigned_test_id |-> t]
                     : st \in Statuses, t \in {NoTestId} \cup TestIds }
    /\ testRow \in [active : BOOLEAN, questions : QuestionLists]
    /\ adminSaves = 0
    /\ delivered = 0
    /\ timers = 0
    /\ role = "none"
    /\ InitView
    /\ InitHistory
    /\ InitParseIdle
    /\ InitConsoleIdle

---------------------------------------------------------------------------
(* App: sign-in and sign-out of the candidate *)

\* handleLogin, candidate branch, and the mount of CandidateView: useState
\* defaults, then the effect starts loadSession (setLoading(true)).
handleLogin ==
    /\ role = "none"
    /\ delivered < MaxPosts
    /\ role' = "candidate"
    /\ loading' = TRUE
    /\ error' = ""
    /\ test' = NoTest
    /\ alreadyTaken' = FALSE
    /\ currentStep' = 0
    /\ answers' = [q \in QIds |-> NoAnswer]
    /\ isSubmitting' = FALSE
    /\ isCompleted' = FALSE
    /\ hasSubmittedRef' = FALSE
    /\ loadPc' = "profile"
    /\ runs' = [s \in Slots |-> IdleRun]
    /\ lastLoad' = "none"
    /\ seenStatus' = "none"
    /\ lastTrigger' = "none"
    /\ UNCHANGED << backendVars, parseVars, consoleVars >>

\* supabase.auth.signOut() and the SIGNED_OUT notification: role becomes
\* null, CandidateView unmounts and its state is gone.
SignedOut ==
    /\ role' = "none"
    /\ loading' = TRUE
    /\ error' = ""
    /\ test' = NoTest
    /\ alreadyTaken' = FALSE
    /\ currentStep' = 0
    /\ answers' = [q \in QIds |-> NoAnswer]
    /\ isSubmitting' = FALSE
    /\ isCompleted' = FALSE
    /\ hasSubmittedRef' = FALSE
    /\ loadPc' = "idle"
    /\ runs' = [s \in Slots |-> IdleRun]
    /\ lastLoad' = "none"
    /\ seenStatus' = "none"
    /\ lastTrigger' = "none"

\* the "Sair" button of the already-taken screen and "Voltar para o Login"
\* of the error screen: onComplete -> handleLogout
onCompleteButton ==
    /\ Screen \in {"taken", "error"}
    /\ SignedOut
    /\ UNCHANGED << backendVars, parseVars, consoleVars >>

\* the 4-second timer started by a successful submission fires
onCompleteTimer ==
    /\ timers > 0
    /\ timers' = timers - 1
    /\ SignedOut
    /\ UNCHANGED << profile, testRow, adminSaves, delivered, parseVars, consoleVars >>

---------------------------------------------------------------------------
(* CandidateView: loadSession *)

\* the profile request of loadSession settles
loadSession_profile ==
    /\ role = "candidate"
    /\ loadPc = "profile"
    /\ \E ok \in BOOLEAN :
         IF ~ok
         THEN \* throw profileError -> catch, finally
              /\ error' = "Erro ao carregar sessao"
              /\ loading' = FALSE
              /\ loadPc' = "idle"
              /\ lastLoad' = "profileError"
              /\ seenStatus' = "none"
              /\ UNCHANGED << alreadyTaken >>
         ELSE IF statusTaken(profile.status)
         THEN \* setAlreadyTaken(true); setLoading(false); return.  alreadyTaken
              \* is a dependency of the effect: when it changes, loadSession
              \* starts again.
              /\ alreadyTaken' = TRUE
              /\ loading' = ~alreadyTaken
              /\ loadPc' = IF alreadyTaken THEN "idle" ELSE "profile"
              /\ lastLoad' = "taken"
              /\ seenStatus' = profile.status
              /\ UNCHANGED << error >>
         ELSE IF profile.assigned_test_id = NoTestId
         THEN /\ error' = "Nenhum teste foi atribuido"
              /\ loading' = FALSE
              /\ loadPc' = "idle"
              /\ lastLoad' = "noTest"
              /\ seenStatus' = profile.status
              /\ UNCHANGED << alreadyTaken >>
         ELSE /\ loadPc' = "test"
              /\ lastLoad' = "fetchingTest"
              /\ seenStatus' = profile.status
              /\ UNCHANGED << error, loading, alreadyTaken >>
    /\ UNCHANGED << backendVars, role, test, currentStep, answers,
                    isSubmitting, isCompleted, hasSubmittedRef, runs,
                    lastTrigger, parseVars, consoleVars >>

\* the test request of loadSession settles
loadSession_test ==
    /\ role = "candidate"
    /\ loadPc = "test"
    /\ \E ok \in BOOLEAN :
         IF ~ok
         THEN /\ error' = "Erro ao carregar sessao"
              /\ lastLoad' = "testError"
              /\ UNCHANGED test
         ELSE IF testInactive(testRow)
         THEN /\ error' = "Este teste nao esta mais ativo"
              /\ lastLoad' = "inactive"
              /\ UNCHANGED test
         ELSE /\ test' = [present |-> TRUE, questions |-> testRow.questions]
              /\ lastLoad' = "loaded"
              /\ UNCHANGED error
    /\ loading' = FALSE
    /\ loadPc' = "idle"
    /\ UNCHANGED << backendVars, role, alreadyTaken, currentStep, answers,
                    isSubmitting, isCompleted, hasSubmittedRef, runs,
                    seenStatus, lastTrigger, parseVars, consoleVars >>

---------------------------------------------------------------------------
(* CandidateView: answering *)

handleScaleAnswer ==
    /\ Screen = "question"
    /\ currentQuestion.type = "scale"
    /\ \E val \in 1..ScaleMax :
         answers' = [answers EXCEPT ![currentQuestion.id] = TextValue(ToStr(val), ToStr(val))]
    /\ UNCHANGED << backendVars, role, loading, error, test, alreadyTaken,
                    currentStep, isSubmitting, isCompleted, hasSubmittedRef,
                    loadPc, runs, lastLoad, seenStatus, lastTrigger, parseVars, consoleVars >>

handleSingleChoice ==
    /\ Screen = "question"
    /\ currentQuestion.type = "choice"
    /\ currentQuestion.variation # "most_least"
    /\ \E option \in Options :
         answers' = [answers EXCEPT ![currentQuestion.id] = TextValue(option.text, option.value)]
    /\ UNCHANGED << backendVars, role, loading, error, test, alreadyTaken,
                    currentStep, isSubmitting, isCompleted, hasSubmittedRef,
                    loadPc, runs, lastLoad, seenStatus, lastTrigger, parseVars, consoleVars >>

handleMostLeast ==
    /\ Screen = "question"
    /\ currentQuestion.type = "choice"
    /\ currentQuestion.variation = "most_least"
    /\ \E type \in {"most", "least"}, option \in Options :
         answers' = [answers EXCEPT ![currentQuestion.id] =
                        mostLeastAnswer(answers[currentQuestion.id], type, option)]
    /\ UNCHANGED << backendVars, role, loading, error, test, alreadyTaken,
                    currentStep, isSubmitting, isCompleted, hasSubmittedRef,
                    loadPc, runs, lastLoad, seenStatus, lastTrigger, parseVars, consoleVars >>

---------------------------------------------------------------------------
(* CandidateView: handleNext and submitTest *)

\* submitTest up to its first await: the latch, setIsSubmitting, the payload,
\* the empty-body check and the fetch call; a throw runs catch and finally.
submitTest ==
    IF latchHeld
    THEN \* if (hasSubmittedRef.current) return;
         /\ lastTrigger' = "ignored"
         /\ UNCHANGED << hasSubmittedRef, isSubmitting, error, runs >>
    ELSE IF ~test.present
    THEN /\ error' = "Erro ao finalizar: Teste nao encontrado"
         /\ hasSubmittedRef' = FALSE
         /\ isSubmitting' = FALSE
         /\ lastTrigger' = "threw"
         /\ UNCHANGED runs
    ELSE IF payloadThrows(test.questions, answers)
    THEN /\ error' = "Erro ao finalizar: TypeError"
         /\ hasSubmittedRef' = FALSE
         /\ isSubmitting' = FALSE
         /\ lastTrigger' = "threw"
         /\ UNCHANGED runs
    ELSE IF Len(questionsList(test.questions, answers)) = 0
    THEN /\ error' = "Erro ao finalizar: O teste parece estar vazio"
         /\ hasSubmittedRef' = FALSE
         /\ isSubmitting' = FALSE
         /\ lastTrigger' = "threw"
         /\ UNCHANGED runs
    ELSE /\ FreeSlots # {}
         /\ hasSubmittedRef' = TRUE
         /\ isSubmitting' = TRUE
         /\ runs' = [runs EXCEPT ![FirstFree] =
                        [pc |-> "webhook", webhook |-> "pending", updateIssued |-> FALSE,
                         before |-> [status |-> profile.status,
                                     completed_date |-> profile.completed_date],
                         body |-> questionsList(test.questions, answers)]]
         /\ lastTrigger' = "started"
         /\ UNCHANGED error

\* A click on the enabled Next / Finish button
handleNext ==
    /\ Screen = "question"
    /\ ~nextDisabled
    /\ IF currentStep < Len(test.questions) - 1
       THEN \* setCurrentStep(prev => prev + 1); currentStep is a dependency of
            \* the effect, so loadSession starts again
            /\ currentStep' = currentStep + 1
            /\ loading' = TRUE
            /\ loadPc' = "profile"
            /\ UNCHANGED << hasSubmittedRef, isSubmitting, error, runs, lastTrigger >>
       ELSE /\ submitTest
            /\ UNCHANGED << currentStep, loading, loadPc >>
    /\ UNCHANGED << backendVars, role, test, alreadyTaken, answers,
                    isCompleted, lastLoad, seenStatus, parseVars, consoleVars >>

\* The duplicate click the latch is written for: Finish is clicked again
\* while a submitTest of this runner has not settled.
handleNext_again ==
    /\ Screen = "question"
    /\ canProceed
    /\ isLastQuestion
    /\ \E s \in Slots : InFlight(s)
    /\ submitTest
    /\ UNCHANGED << backendVars, role, loading, test, alreadyTaken, currentStep,
                    answers, isCompleted, loadPc, lastLoad, seenStatus, parseVars, consoleVars >>

\* The webhook request of a run settles: the endpoint answers with a success
\* status, answers with an error status (fetch resolves all the same), or the
\* request fails (fetch rejects).
submitTest_webhook ==
    /\ role = "candidate"
    /\ \E s \in Slots, outcome \in {"ok", "http_error", "network_error"} :
         /\ runs[s].pc = "webhook"
         /\ IF outcome = "network_error"
            THEN \* catch (webhookErr) -> throw -> outer catch, finally
                 /\ runs' = [runs EXCEPT ![s].pc = "idle", ![s].webhook = outcome,
                                         ![s].body = << >>]
                 /\ error' = "Erro ao finalizar: Falha de conexao"
                 /\ hasSubmittedRef' = FALSE
                 /\ isSubmitting' = FALSE
                 /\ UNCHANGED delivered
            ELSE \* the profile update is issued
                 /\ runs' = [runs EXCEPT ![s].pc = "update", ![s].webhook = outcome,
                                         ![s].updateIssued = TRUE, ![s].body = << >>]
                 /\ delivered' = delivered + 1
                 /\ UNCHANGED << error, hasSubmittedRef, isSubmitting >>
    /\ UNCHANGED << profile, testRow, adminSaves, timers, role, loading, test,
                    alreadyTaken, currentStep, answers, isCompleted, loadPc,
                    lastLoad, seenStatus, lastTrigger, parseVars, consoleVars >>

\* The profile update of a run settles
submitTest_profileUpdate ==
    /\ role = "candidate"
    /\ \E s \in Slots, ok \in BOOLEAN :
         /\ runs[s].pc = "update"
         /\ runs' = [runs EXCEPT ![s].pc = "idle"]
         /\ IF ok
            THEN \* status: 'completed', completed_date: today; setIsCompleted(true);
                 \* setTimeout(onComplete, 4000); isCompleted is a dependency of
                 \* the effect, so loadSession starts again
                 /\ profile' = [profile EXCEPT !.status = "completed",
                                               !.completed_date = "today"]
                 /\ isCompleted' = TRUE
                 /\ timers' = timers + 1
                 /\ isSubmitting' = FALSE
                 /\ loading' = IF isCompleted THEN loading ELSE TRUE
                 /\ loadPc' = IF isCompleted THEN loadPc ELSE "profile"
                 /\ UNCHANGED << error, hasSubmittedRef >>
            ELSE \* throw profileError -> catch, finally
                 /\ error' = "Erro ao finalizar: profileError"
                 /\ hasSubmittedRef' = FALSE
                 /\ isSubmitting' = FALSE
                 /\ UNCHANGED << profile, isCompleted, timers, loading, loadPc >>
    /\ UNCHANGED << testRow, adminSaves, delivered, role, test, alreadyTaken,
                    currentStep, answers, lastLoad, seenStatus, lastTrigger, parseVars, consoleVars >>

---------------------------------------------------------------------------
(* Admin console, in another browser *)

\* The question list without its i-th question (removeQuestion)
RemoveAt(qs, i) == [ j \in 1..(Len(qs) - 1) |-> IF j < i THEN qs[j] ELSE qs[j + 1] ]

\* A draft of the test builder one edit away from the stored test: a question
\* removed (removeQuestion), its type or variation changed (updateQuestion),
\* a question appended with a later id (addQuestion), or the active flag
\* toggled.  Several edits are several saves.
DraftsOf(row) ==
    { [active |-> row.active, questions |-> RemoveAt(row.questions, i)]
        : i \in 1..Len(row.questions) }
    \cup { [active |-> row.active,
            questions |-> [row.questions EXCEPT ![i] = Question(row.questions[i].id, k)]]
        : i \in 1..Len(row.questions), k \in Kinds }
    \cup { [active |-> row.active, questions |-> Append(row.questions, Question(i, k))]
        : i \in { j \in QIds : j > MaxId(row.questions) }, k \in Kinds }
    \cup { [active |-> ~row.active, questions |-> row.questions] }

\* TestsManager.handleSave, update branch: the draft replaces the row.  The
\* runner reads the row only in loadSession's test request, so a save made
\* at any earlier moment is observed there: the save is taken while that
\* request is pending.
TestsManager_handleSave ==
    /\ adminSaves < MaxAdminSaves
    /\ loadPc = "test"
    /\ \E d \in DraftsOf(testRow) :
         /\ d # testRow
         /\ testRow' = d
    /\ adminSaves' = adminSaves + 1
    /\ UNCHANGED << profile, delivered, timers, role, viewVars, loadPc, runs,
                    lastLoad, seenStatus, lastTrigger, parseVars, consoleVars >>

CandidatesList_handleSave_resetsStatus ==
    /\ adminSaves < MaxAdminSaves
    /\ loadPc = "profile"
    /\ \E t \in {NoTestId} \cup TestIds :
         /\ t # profile.assigned_test_id
         /\ profile' = [profile EXCEPT !.assigned_test_id = t, !.status = "pending"]
    /\ adminSaves' = adminSaves + 1
    /\ UNCHANGED << testRow, delivered, timers, role, viewVars, loadPc, runs,
                    lastLoad, seenStatus, lastTrigger, parseVars, consoleVars >>

\* CandidatesList.handleSave, update branch: name and assigned test only.
\* The runner reads assigned_test_id only in loadSession's profile request;
\* the save is taken while that request is pending.
CandidatesList_handleSave ==
    /\ adminSaves < MaxAdminSaves
    /\ loadPc = "profile"
    /\ \E t \in {NoTestId} \cup TestIds :
         /\ t # profile.assigned_test_id
         /\ profile' = [profile EXCEPT !.assigned_test_id = t]
    /\ adminSaves' = adminSaves + 1
    /\ UNCHANGED << testRow, delivered, timers, role, viewVars, loadPc, runs,
                    lastLoad, seenStatus, lastTrigger, parseVars, consoleVars >>

---------------------------------------------------------------------------
(* Specification of the candidate runner *)

Next ==
    \/ handleLogin
    \/ onCompleteButton
    \/ onCompleteTimer
    \/ loadSession_profile
    \/ loadSession_test
    \/ handleScaleAnswer
    \/ handleSingleChoice
    \/ handleMostLeast
    \/ handleNext
    \/ handleNext_again
    \/ submitTest_webhook
    \/ submitTest_profileUpdate
    \/ TestsManager_handleSave
    \/ CandidatesList_handleSave

Spec == Init /\ [][Next]_vars

---------------------------------------------------------------------------
(* Structure of the runner's asynchronous flows *)

RunsInFlight == { s \in Slots : InFlight(s) }

SubmitErrors ==
    { "Erro ao finalizar: Teste nao encontrado",
      "Erro ao finalizar: TypeError",
      "Erro ao finalizar: O teste parece estar vazio",
      "Erro ao finalizar: Falha de conexao",
      "Erro ao finalizar: profileError" }

\* loadSession never overlaps a submitTest run or the question screen, so one
\* position per flow describes the runner
SingleFlow ==
    (Screen = "question" \/ RunsInFlight # {}) => loadPc = "idle"

\* CandidateView is never unmounted while a submitTest run is in flight
NoUnmountInFlight ==
    [][role = "candidate" /\ role' = "none" => RunsInFlight = {}]_vars

---------------------------------------------------------------------------
(* C1 *)

\* C1: submitTest is guarded by a one-shot latch.  At most one submitTest run,
\* hence at most one webhook request, of a runner is unsettled at any time; a
\* trigger made while a run is unsettled starts no run, sends nothing and
\* updates no profile; the latch is released only when a run fails and stays
\* set after a successful submission.
C1_Latch ==
    /\ [](Cardinality(RunsInFlight) <= 1)
    /\ [](Cardinality({ s \in Slots : runs[s].pc = "webhook" }) <= 1)
    /\ [][ (RunsInFlight # {} /\ role' = "candidate")
           => /\ \A s \in Slots : ~InFlight(s) => runs'[s].pc = "idle"
              /\ lastTrigger' # lastTrigger
                 => /\ lastTrigger' = "ignored"
                    /\ runs' = runs
                    /\ delivered' = delivered
                    /\ profile' = profile ]_vars
    /\ [][ (hasSubmittedRef /\ ~hasSubmittedRef')
           => \/ role' = "none"
              \/ /\ \E s \in Slots : InFlight(s) /\ runs'[s].pc = "idle"
                 /\ error' \in SubmitErrors
                 /\ ~isCompleted' ]_vars
    /\ [](isCompleted => hasSubmittedRef)

\* a duplicate trigger was ignored while the webhook request is outstanding
C1_Witness ==
    /\ lastTrigger = "ignored"
    /\ \E s \in Slots : runs[s].pc = "webhook"

---------------------------------------------------------------------------
(* C2 *)

\* C2: within a submitTest run the profile update is issued only after the
\* webhook call of that run has returned success, and isCompleted is set only
\* after that profile update succeeded.
C2_UpdateOnlyAfterWebhookSuccess ==
    /\ \A s \in Slots : runs[s].updateIssued => runs[s].webhook = "ok"
    /\ isCompleted => /\ profile.status = "completed"
                      /\ \E s \in Slots : runs[s].updateIssued /\ ~InFlight(s)

\* The order of the steps alone: the update is issued only after the webhook
\* request has settled without a connection error.
C2_UpdateAfterWebhookSettled ==
    /\ \A s \in Slots : runs[s].updateIssued => runs[s].webhook \in {"ok", "http_error"}
    /\ \A s \in Slots : runs[s].pc = "update" => runs[s].updateIssued
    /\ isCompleted => /\ profile.status = "completed"
                      /\ \E s \in Slots : runs[s].updateIssued /\ ~InFlight(s)

---------------------------------------------------------------------------
(* C3 *)

\* C3: when the webhook call of a run fails, by a connection error or by a
\* non-success HTTP status, that run issues no profile update and the
\* profile's status and completion date stay as they were when it started.
C3_FailedWebhookLeavesProfile ==
    \A s \in Slots :
        runs[s].webhook \in {"network_error", "http_error"}
        => /\ ~runs[s].updateIssued
           /\ profile.status = runs[s].before.status
           /\ profile.completed_date = runs[s].before.completed_date

\* The connection-error half, which the code keeps
C3_ConnectionErrorLeavesProfile ==
    \A s \in Slots :
        runs[s].webhook = "network_error"
        => /\ ~runs[s].updateIssued
           /\ profile.status = runs[s].before.status
           /\ profile.completed_date = runs[s].before.completed_date

---------------------------------------------------------------------------
(* C4 *)

\* C4: the webhook receives at most one delivered POST for the candidate, and
\* a successfully finished flow has delivered exactly one.
C4_ExactlyOnce ==
    /\ delivered <= 1
    /\ isCompleted => delivered = 1

---------------------------------------------------------------------------
(* C5 *)

\* the Next / Finish button is rendered and enabled
SubmitControlEnabled == Screen = "question" /\ ~nextDisabled

RecoverableFailureSettled ==
    /\ role = "candidate"
    /\ \E s \in Slots : runs[s].webhook = "network_error" /\ ~InFlight(s)

\* C5: after a submission failed because the webhook request could not be
\* delivered, the candidate can retry without leaving the runner: the submit
\* control is enabled again.  The failed run changes neither the answers nor
\* the step, so a runner that allows the retry shows the enabled control as
\* soon as the failed run has settled.
C5_RetryAfterRecoverableFailure ==
    RecoverableFailureSettled => SubmitControlEnabled

\* What the code does instead: the error screen stays until sign-out
C5_ErrorScreenUntilSignOut ==
    RecoverableFailureSettled => (Screen = "error" /\ ~hasSubmittedRef)

---------------------------------------------------------------------------
(* C6 *)

\* C6: when loadSession reads a profile whose status is 'completed' or
\* 'in-progress' the runner goes to the already-taken screen whatever the
\* assigned test is: the test is not fetched, the question screen is never
\* shown, and no submission starts, delivers a POST or updates the profile.
C6_AlreadyTaken ==
    /\ []( (role = "candidate" /\ seenStatus \in {"completed", "in-progress"})
           => /\ alreadyTaken
              /\ lastLoad = "taken"
              /\ loadPc # "test" )
    /\ []( alreadyTaken => /\ Screen \in {"loading", "taken"}
                           /\ RunsInFlight = {} )
    /\ [][ (alreadyTaken /\ role' = "candidate")
           => /\ alreadyTaken'
              /\ test' = test
              /\ runs' = runs
              /\ delivered' = delivered
              /\ profile'.status = profile.status
              /\ profile'.completed_date = profile.completed_date ]_vars

\* the already-taken screen for an in-progress profile with an active,
\* non-empty test assigned
C6_Witness ==
    /\ Screen = "taken"
    /\ seenStatus = "in-progress"
    /\ profile.assigned_test_id = "T1"
    /\ testRow.active
    /\ Len(testRow.questions) > 0

---------------------------------------------------------------------------
(* C7 *)

BlockedLoads == {"noTest", "inactive", "profileError", "testError"}

\* C7: a load that finds no assigned test or an inactive test, or whose
\* profile or test request fails, ends on the error screen with a message
\* (or on the already-taken screen when that was reached before); the test
\* is requested only for a pending profile with an assigned test and is
\* taken over only from an active row; once an error is stored no submission
\* starts, no POST is delivered and the profile is not updated.
C7_Blocked ==
    /\ []( lastLoad \in BlockedLoads
           => /\ error # ""
              /\ Screen \in {"error", "taken"}
              /\ loadPc = "idle"
              /\ RunsInFlight = {} )
    /\ []( lastLoad = "noTest" => seenStatus = "pending" )
    /\ [][ (loadPc = "profile" /\ loadPc' = "test")
           => /\ profile.status = "pending"
              /\ profile.assigned_test_id # NoTestId ]_vars
    /\ [][ (loadPc = "test" /\ lastLoad' = "loaded") => testRow.active ]_vars
    /\ [][ (loadPc = "test" /\ loadPc' = "idle" /\ role' = "candidate" /\ ~testRow.active)
           => lastLoad' \in {"inactive", "testError"} ]_vars
    /\ [][ (error # "" /\ role' = "candidate")
           => /\ error' # ""
              /\ runs' = runs
              /\ delivered' = delivered
              /\ profile'.status = profile.status
              /\ profile'.completed_date = profile.completed_date ]_vars

\* the error screen after the assigned test was found inactive
C7_Witness ==
    /\ Screen = "error"
    /\ lastLoad = "inactive"
    /\ seenStatus = "pending"
    /\ error = "Este teste nao esta mais ativo"

---------------------------------------------------------------------------
(* C8 *)

ScaleStrings == { ToStr(v) : v \in 1..ScaleMax }

\* the completion predicate of a question's answer
AnswerComplete(q, a) ==
    IF q.type = "scale"
    THEN a.kind = "tv" /\ a.value \in ScaleStrings /\ a.text = a.value
    ELSE IF q.variation = "most_least"
    THEN /\ a.kind = "ml"
         /\ a.most \in Options
         /\ a.least \in Options
         /\ a.most # a.least
    ELSE /\ a.kind = "tv"
         /\ \E o \in Options : a.text = o.text /\ a.value = o.value

\* C8: currentStep advances, and on the last question a submission starts,
\* only from the question screen and only when the current question's
\* answer satisfies its completion predicate; while the answer is missing or
\* incomplete the Next / Finish button is disabled.
C8_NextNeedsCompleteAnswer ==
    /\ [][ ( /\ role = "candidate"
             /\ role' = "candidate"
             /\ \/ currentStep' # currentStep
                \/ \E s \in Slots : ~InFlight(s) /\ runs'[s].pc # "idle"
                \/ ~isSubmitting /\ isSubmitting' )
           => /\ Screen = "question"
              /\ AnswerComplete(currentQuestion, answers[currentQuestion.id])
              /\ \/ currentStep' = currentStep + 1 /\ ~isLastQuestion /\ runs' = runs
                 \/ currentStep' = currentStep /\ isLastQuestion ]_vars
    /\ []( (Screen = "question"
            /\ ~AnswerComplete(currentQuestion, answers[currentQuestion.id]))
           => nextDisabled )

\* a submission running after a scale question and a most/least question
\* were answered and passed
C8_Witness ==
    /\ role = "candidate"
    /\ currentStep = 1
    /\ Len(test.questions) = 2
    /\ test.questions[1].type = "scale"
    /\ test.questions[2].variation = "most_least"
    /\ RunsInFlight # {}

---------------------------------------------------------------------------
(* C9 *)

\* C9: the recorded 'most' and 'least' selections of a question never carry
\* the same option text; choosing for one slot the option the other slot
\* holds clears the other slot; a most/least question lets the runner
\* proceed only with both slots filled by different options.
C9_MostLeastDistinct ==
    /\ []( \A q \in QIds :
             (answers[q].most # Undef /\ answers[q].least # Undef)
             => answers[q].most.text # answers[q].least.text )
    /\ [][ \A q \in QIds :
             (answers'[q] # answers[q] /\ answers'[q].kind = "ml")
             => /\ ( /\ answers'[q].most # answers[q].most
                     /\ answers[q].least # Undef
                     /\ answers'[q].most.text = answers[q].least.text )
                   => answers'[q].least = Undef
                /\ ( /\ answers'[q].least # answers[q].least
                     /\ answers[q].most # Undef
                     /\ answers'[q].least.text = answers[q].most.text )
                   => answers'[q].most = Undef ]_vars
    /\ []( ( /\ Screen = "question"
             /\ currentQuestion.type = "choice"
             /\ currentQuestion.variation = "most_least"
             /\ canProceed )
           => LET a == answers[currentQuestion.id]
              IN  a.most \in Options /\ a.least \in Options /\ a.most # a.least )

\* a complete most/least answer, its two slots holding different options
C9_Witness ==
    \E q \in QIds :
        /\ answers[q].kind = "ml"
        /\ answers[q].most = [text |-> "", value |-> ""]
        /\ answers[q].least = [text |-> "A", value |-> "Lider"]

---------------------------------------------------------------------------
(* Result viewer: JSON texts and values *)

\* longest text enumerated character by character
MaxTextLen == 4
\* deepest string encoding of an object
MaxNest == 3
\* questions in the body of a stored payload
MaxBody == 2

\* A text is a sequence of characters.  NL is the newline character and
\* U1111 the character written ᄑ.
Chars == { "{", "}", "\"", "\\", ":", "1", "n", "u", "l" }

RECURSIVE TextsUpTo(_)
TextsUpTo(k) ==
    IF k = 0 THEN { << >> }
    ELSE LET shorter == TextsUpTo(k - 1)
         IN  shorter \cup { Append(t, c) : t \in { x \in shorter : Len(x) = k - 1 }, c \in Chars }

\* JavaScript values: objects with at most one member, strings, the numbers
\* written with the digit 1 (n is the number of digits), null, undefined
JsObject(key, member) == [t |-> "obj", s |-> key, n |-> 0, m |-> member]
JsString(content) == [t |-> "str", s |-> content, n |-> 0, m |-> << >>]
JsNumber(digits) == [t |-> "num", s |-> << >>, n |-> digits, m |-> << >>]
JsNull == [t |-> "null", s |-> << >>, n |-> 0, m |-> << >>]
JsUndefined == [t |-> "undefined", s |-> << >>, n |-> 0, m |-> << >>]
EmptyObject == JsObject(<< >>, << >>)
\* an array, and an object with any number of members: m holds the
\* <<key, value>> pairs in insertion order.  A result column of type jsonb
\* arrives as such a value, already parsed.
JsArray(elems) == [t |-> "arr", s |-> << >>, n |-> 0, m |-> elems]
JsRecord(pairs) == [t |-> "rec", s |-> << >>, n |-> 0, m |-> pairs]
\* typeof v === 'object' && v !== null
IsObject(v) == v.t \in { "obj", "rec", "arr" }
Unset == [t |-> "unset", s |-> << >>, n |-> 0, m |-> << >>]

Ones(k) == [ i \in 1..k |-> "1" ]

\* the text of a string literal: quotes around the escaped content
RECURSIVE Escaped(_)
Escaped(content) ==
    IF content = << >> THEN << >>
    ELSE LET c == Head(content)
             e == IF c = "\"" THEN << "\\", "\"" >>
                  ELSE IF c = "\\" THEN << "\\", "\\" >>
                  ELSE IF c = "NL" THEN << "\\", "n" >>
                  ELSE << c >>
         IN  e \o Escaped(Tail(content))

Quoted(content) == << "\"" >> \o Escaped(content) \o << "\"" >>

\* JSON.stringify
RECURSIVE Stringify(_)
Stringify(v) ==
    IF v.t = "obj"
    THEN IF v.m = << >> THEN << "{", "}" >>
         ELSE << "{" >> \o Quoted(v.s) \o << ":" >> \o Stringify(v.m[1]) \o << "}" >>
    ELSE IF v.t = "str" THEN Quoted(v.s)
    ELSE IF v.t = "num" THEN Ones(v.n)
    ELSE << "n", "u", "l", "l" >>

\* String(v), the coercion JSON.parse applies to an input that is no string
StringOf(v) ==
    IF v.t = "str" THEN v.s
    ELSE IF v.t = "num" THEN Ones(v.n)
    ELSE IF v.t = "null" THEN << "n", "u", "l", "l" >>
    ELSE << "u", "n", "d", "e", "f", "i", "n", "e", "d" >>

ParseFail == [ok |-> FALSE, v |-> Unset, pos |-> 0]

RECURSIVE SkipWs(_, _)
SkipWs(txt, i) ==
    IF i <= Len(txt) /\ txt[i] = "NL" THEN SkipWs(txt, i + 1) ELSE i

RECURSIVE CountOnes(_, _)
CountOnes(txt, i) ==
    IF i <= Len(txt) /\ txt[i] = "1" THEN 1 + CountOnes(txt, i + 1) ELSE 0

\* the content of a string literal whose opening quote precedes position i
RECURSIVE ParseStringBody(_, _, _)
ParseStringBody(txt, i, acc) ==
    IF i > Len(txt) THEN ParseFail
    ELSE IF txt[i] = "\"" THEN [ok |-> TRUE, v |-> JsString(acc), pos |-> i + 1]
    ELSE IF txt[i] = "NL" THEN ParseFail
    ELSE IF txt[i] = "\\"
    THEN IF i + 1 > Len(txt) THEN ParseFail
         ELSE IF txt[i + 1] \in { "\"", "\\" }
              THEN ParseStringBody(txt, i + 2, Append(acc, txt[i + 1]))
         ELSE IF txt[i + 1] = "n"
              THEN ParseStringBody(txt, i + 2, Append(acc, "NL"))
         ELSE IF txt[i + 1] = "u" /\ i + 5 <= Len(txt)
                 /\ \A j \in (i + 2)..(i + 5) : txt[j] = "1"
              THEN ParseStringBody(txt, i + 6, Append(acc, "U1111"))
         ELSE ParseFail
    ELSE ParseStringBody(txt, i + 1, Append(acc, txt[i]))

\* one JSON value starting at position i, whitespace skipped
RECURSIVE ParseValue(_, _)
ParseValue(txt, i0) ==
    LET i == SkipWs(txt, i0)
    IN  IF i > Len(txt) THEN ParseFail
        ELSE IF txt[i] = "\"" THEN ParseStringBody(txt, i + 1, << >>)
        ELSE IF txt[i] = "1"
             THEN LET k == CountOnes(txt, i)
                  IN  [ok |-> TRUE, v |-> JsNumber(k), pos |-> i + k]
        ELSE IF txt[i] = "n"
             THEN IF i + 3 <= Len(txt) /\ txt[i + 1] = "u" /\ txt[i + 2] = "l" /\ txt[i + 3] = "l"
                  THEN [ok |-> TRUE, v |-> JsNull, pos |-> i + 4]
                  ELSE ParseFail
        ELSE IF txt[i] = "{"
             THEN LET j == SkipWs(txt, i + 1)
                  IN  IF j > Len(txt) THEN ParseFail
                      ELSE IF txt[j] = "}"
                           THEN [ok |-> TRUE, v |-> EmptyObject, pos |-> j + 1]
                      ELSE IF txt[j] # "\"" THEN ParseFail
                      ELSE LET key == ParseStringBody(txt, j + 1, << >>)
                           IN  IF ~key.ok THEN ParseFail
                               ELSE LET c == SkipWs(txt, key.pos)
                                    IN  IF c > Len(txt) \/ txt[c] # ":" THEN ParseFail
                                        ELSE LET val == ParseValue(txt, c + 1)
                                             IN  IF ~val.ok THEN ParseFail
                                                 ELSE LET e == SkipWs(txt, val.pos)
                                                      IN  IF e > Len(txt) \/ txt[e] # "}"
                                                          THEN ParseFail
                                                          ELSE [ok |-> TRUE,
                                                                v |-> JsObject(key.v.s, << val.v >>),
                                                                pos |-> e + 1]
        ELSE ParseFail

\* JSON.parse: one value and nothing but whitespace after it; a failure is
\* the SyntaxError
JSONparse(txt) ==
    LET r == ParseValue(txt, 1)
    IN  IF r.ok /\ SkipWs(txt, r.pos) = Len(txt) + 1 THEN r ELSE ParseFail

\* safeParseJSON without the recursive unwrapping
safeParseJSON_once(input) ==
    IF IsObject(input) THEN input
    ELSE LET r == JSONparse(StringOf(input))
         IN  IF ~r.ok THEN EmptyObject ELSE r.v

RECURSIVE safeParseJSON(_)
safeParseJSON(input) ==
    IF IsObject(input) THEN input
    ELSE LET r == JSONparse(StringOf(input))
         IN  IF ~r.ok THEN EmptyObject
             ELSE IF r.v.t = "str" THEN safeParseJSON(r.v)
             ELSE r.v

---------------------------------------------------------------------------
(* Result viewer: calculateChartData *)

\* property names and string constants of the code, character by character
Key_comunicacao ==
    << "c", "a", "r", "a", "c", "t", "e", "i", "r", "s", "t", "a", "-", "d",
       "e", "-", "p", "e", "r", "s", "o", "n", "a", "l", "i", "d", "a", "d",
       "e", "-", "c", "o", "m", "u", "n", "i", "c", "a", "c", "a", "o" >>
Key_organizacao ==
    << "c", "a", "r", "a", "c", "t", "e", "i", "r", "s", "t", "a", "-", "d",
       "e", "-", "p", "e", "r", "s", "o", "n", "a", "l", "i", "d", "a", "d",
       "e", "-", "o", "r", "g", "a", "n", "i", "z", "a", "c", "a", "o" >>
Key_lideranca ==
    << "c", "a", "r", "a", "c", "t", "e", "i", "r", "s", "t", "a", "-", "d",
       "e", "-", "p", "e", "r", "s", "o", "n", "a", "l", "i", "d", "a", "d",
       "e", "-", "l", "i", "d", "e", "r", "a", "n", "c", "a" >>
Key_analitico ==
    << "c", "a", "r", "a", "c", "t", "e", "i", "r", "s", "t", "a", "-", "d",
       "e", "-", "p", "e", "r", "s", "o", "n", "a", "l", "i", "d", "a", "d",
       "e", "-", "a", "n", "a", "l", "i", "t", "i", "c", "o" >>
Key_metadados ==
    << "m", "e", "t", "a", "d", "a", "d", "o", "s", "_", "c", "a", "l", "c",
       "u", "l", "o" >>
Key_escala == << "e", "s", "c", "a", "l", "a", "_", "0", "_", "1", "0", "0" >>
Key_body == << "b", "o", "d", "y" >>
Key_questions == << "q", "u", "e", "s", "t", "i", "o", "n", "s" >>
Key_payload == << "p", "a", "y", "l", "o", "a", "d" >>
Key_category == << "c", "a", "t", "e", "g", "o", "r", "y" >>
Key_type == << "t", "y", "p", "e" >>
Key_resposta == << "r", "e", "s", "p", "o", "s", "t", "a" >>
Key_value == << "v", "a", "l", "u", "e" >>
Key_most == << "m", "o", "s", "t" >>
Key_test_title == << "t", "e", "s", "t", "_", "t", "i", "t", "l", "e" >>
Text_scale == << "s", "c", "a", "l", "e" >>
Text_choice == << "c", "h", "o", "i", "c", "e" >>
Text_objectObject ==
    << "[", "o", "b", "j", "e", "c", "t", " ", "O", "b", "j", "e", "c", "t",
       "]" >>

Digits == << "0", "1", "2", "3", "4", "5", "6", "7", "8", "9" >>
DigitVal(c) == (CHOOSE i \in 1..10 : Digits[i] = c) - 1
IsDigit(c) == \E i \in 1..10 : Digits[i] = c

\* the decimal text of a natural number
RECURSIVE DecText(_)
DecText(k) ==
    IF k < 10 THEN << Digits[k + 1] >>
    ELSE Append(DecText(k \div 10), Digits[(k % 10) + 1])

\* the number a JsNumber stands for: k digits 1
RECURSIVE NumVal(_)
NumVal(k) == IF k = 0 THEN 0 ELSE 10 * NumVal(k - 1) + 1

\* ToString, as property keys and parseInt apply it
RECURSIVE ToText(_)
ToText(v) ==
    IF v.t = "str" THEN v.s
    ELSE IF v.t = "num" THEN Ones(v.n)
    ELSE IF v.t = "null" THEN << "n", "u", "l", "l" >>
    ELSE IF v.t = "arr"
         THEN IF v.m = << >> THEN << >>
              ELSE LET first == IF Head(v.m).t \in { "null", "undefined" } THEN << >>
                                ELSE ToText(Head(v.m))
                   IN  IF Len(v.m) = 1 THEN first
                       ELSE first \o << "," >> \o ToText(JsArray(Tail(v.m)))
    ELSE IF IsObject(v) THEN Text_objectObject
    ELSE StringOf(v)

\* the value as a condition
Truthy(v) ==
    IF IsObject(v) THEN TRUE
    ELSE IF v.t = "str" THEN v.s # << >>
    ELSE IF v.t = "num" THEN v.n > 0
    ELSE FALSE

Nullish(v) == v.t \in { "null", "undefined" }

\* the <<key, value>> pairs of an object's own members
Members(v) ==
    IF v.t = "obj" THEN IF v.m = << >> THEN << >> ELSE << << v.s, v.m[1] >> >>
    ELSE IF v.t = "rec" THEN v.m
    ELSE << >>

\* v[key] for a value that is neither null nor undefined
Get(v, key) ==
    LET ms == Members(v)
        at == { i \in 1..Len(ms) : ms[i][1] = key }
    IN  IF at = { } THEN JsUndefined
        ELSE ms[CHOOSE i \in at : \A j \in at : j <= i][2]

\* v?.[key]
GetOptional(v, key) == IF Nullish(v) THEN JsUndefined ELSE Get(v, key)

\* Object.entries
Entries(v) ==
    IF v.t \in { "obj", "rec" } THEN Members(v)
    ELSE IF v.t = "arr" THEN [ i \in 1..Len(v.m) |-> << DecText(i - 1), v.m[i] >> ]
    ELSE IF v.t = "str"
         THEN [ i \in 1..Len(v.s) |-> << DecText(i - 1), JsString(<< v.s[i] >>) >> ]
    ELSE << >>

\* parseInt: the leading decimal digits after whitespace and a sign
RECURSIVE DigitsValue(_, _)
DigitsValue(txt, acc) ==
    IF txt = << >> \/ ~IsDigit(Head(txt)) THEN acc
    ELSE DigitsValue(Tail(txt), 10 * acc + DigitVal(Head(txt)))

RECURSIVE ParseInt(_)
ParseInt(txt) ==
    IF txt = << >> THEN [nan |-> TRUE, n |-> 0]
    ELSE IF Head(txt) = "NL" THEN ParseInt(Tail(txt))
    ELSE IF Head(txt) \in { "-", "+" }
         THEN IF Len(txt) > 1 /\ IsDigit(txt[2])
              THEN [nan |-> FALSE,
                    n |-> IF Head(txt) = "-" THEN 0 - DigitsValue(Tail(txt), 0)
                          ELSE DigitsValue(Tail(txt), 0)]
              ELSE [nan |-> TRUE, n |-> 0]
    ELSE IF IsDigit(Head(txt)) THEN [nan |-> FALSE, n |-> DigitsValue(txt, 0)]
    ELSE [nan |-> TRUE, n |-> 0]

\* key.replace(/_/g, ' ')
ReplaceUnderscores(key) ==
    [ i \in 1..Len(key) |-> IF key[i] = "_" THEN " " ELSE key[i] ]

\* typeof value === 'number' ? value : 0
NumberOrZero(v) == IF v.t = "num" THEN NumVal(v.n) ELSE 0

\* the sections listed from the last to the first
sections_reversed == << Key_analitico, Key_lideranca, Key_organizacao, Key_comunicacao >>

sections == << Key_comunicacao, Key_organizacao, Key_lideranca, Key_analitico >>

\* Scenario A, radar: the entries of each present section, in section order
RECURSIVE radarOfSections(_, _)
radarOfSections(data, secs) ==
    IF secs = << >> THEN << >>
    ELSE LET sec == Get(data, Head(secs))
             es == IF Truthy(sec) THEN Entries(sec) ELSE << >>
         IN  [ i \in 1..Len(es) |-> [subject |-> ReplaceUnderscores(es[i][1]),
                                     A |-> NumberOrZero(es[i][2]),
                                     fullMark |-> 100] ]
             \o radarOfSections(data, Tail(secs))

\* Scenario A, bars: the entries of metadados_calculo.escala_0_100
barOfScale(data) ==
    LET meta == Get(data, Key_metadados)
        scale == IF Truthy(meta) THEN Get(meta, Key_escala) ELSE JsUndefined
        es == IF Truthy(scale) THEN Entries(scale) ELSE << >>
    IN  [ i \in 1..Len(es) |-> [name |-> es[i][1], value |-> NumberOrZero(es[i][2])] ]

\* data.body || data.questions || data.payload?.body || []
questionsOf_noDefault(data) ==
    LET body == Get(data, Key_body)
        qs == Get(data, Key_questions)
        nested == GetOptional(Get(data, Key_payload), Key_body)
    IN  IF Truthy(body) THEN body
        ELSE IF Truthy(qs) THEN qs
        ELSE nested

questionsOf(data) ==
    LET body == Get(data, Key_body)
        qs == Get(data, Key_questions)
        nested == GetOptional(Get(data, Key_payload), Key_body)
    IN  IF Truthy(body) THEN body
        ELSE IF Truthy(qs) THEN qs
        ELSE IF Truthy(nested) THEN nested
        ELSE JsArray(<< >>)

\* categoryScores[cat].total += score; .count += 1, keys in insertion order
AddScore(scores, cat, score) ==
    IF \E i \in 1..Len(scores) : scores[i].cat = cat
    THEN [ i \in 1..Len(scores) |->
             IF scores[i].cat = cat
             THEN [cat |-> cat,
                   nan |-> scores[i].nan \/ score.nan,
                   total |-> scores[i].total + score.n,
                   count |-> scores[i].count + 1]
             ELSE scores[i] ]
    ELSE Append(scores, [cat |-> cat, nan |-> score.nan, total |-> score.n, count |-> 1])

\* profileCounts[tag] = (profileCounts[tag] || 0) + 1
AddCount(counts, tag) ==
    IF \E i \in 1..Len(counts) : counts[i].tag = tag
    THEN [ i \in 1..Len(counts) |->
             IF counts[i].tag = tag
             THEN [tag |-> tag, count |-> counts[i].count + 1]
             ELSE counts[i] ]
    ELSE Append(counts, [tag |-> tag, count |-> 1])

\* the tally without the isNaN test
IsTag_anyValue(v) == Truthy(v)

\* value && isNaN(parseInt(value))
IsTag(v) == Truthy(v) /\ ParseInt(ToText(v)).nan

\* Scenario B: the body of questions.forEach, folded over the questions.  A
\* question that is null raises the TypeError of q.category.
RECURSIVE scoreQuestions(_, _, _)
scoreQuestions(qs, scores, counts) ==
    IF qs = << >>
    THEN [throws |-> FALSE, categoryScores |-> scores, profileCounts |-> counts]
    ELSE LET q == Head(qs)
         IN  IF Nullish(q)
             THEN [throws |-> TRUE, categoryScores |-> scores, profileCounts |-> counts]
             ELSE LET category == Get(q, Key_category)
                      qType == Get(q, Key_type)
                      answered == Get(q, Key_resposta)
                      answerValue == GetOptional(answered, Key_value)
                      mostValue == GetOptional(GetOptional(answered, Key_most), Key_value)
                      scores1 == IF /\ Truthy(category)
                                    /\ qType = JsString(Text_scale)
                                    /\ Truthy(answerValue)
                                 THEN AddScore(scores, ToText(category),
                                               ParseInt(ToText(answerValue)))
                                 ELSE scores
                      isChoice == qType = JsString(Text_choice) /\ Truthy(answered)
                      counts1 == IF isChoice /\ IsTag(answerValue)
                                 THEN AddCount(counts, ToText(answerValue))
                                 ELSE counts
                      counts2 == IF isChoice /\ IsTag(mostValue)
                                 THEN AddCount(counts1, ToText(mostValue))
                                 ELSE counts1
                  IN  scoreQuestions(Tail(qs), scores1, counts2)

\* (total / count).toFixed(1), in tenths, the tie rounded up
Average(score) ==
    [nan |-> score.nan,
     tenths |-> IF score.nan THEN 0
                ELSE (20 * score.total + score.count) \div (2 * score.count)]

\* cat.length > 20 ? cat.substring(0, 20) + '...' : cat
Shortened(cat) ==
    IF Len(cat) > 20 THEN SubSeq(cat, 1, 20) \o << ".", ".", "." >> ELSE cat

ChartThrows == [throws |-> TRUE, radarData |-> << >>, barData |-> << >>, isAiData |-> FALSE]

\* calculateChartData(resultRow) with resultRow.result = result
calculateChartData(result) ==
    LET data == IF Truthy(result) THEN result ELSE EmptyObject
    IN  IF Truthy(Get(data, Key_lideranca)) \/ Truthy(Get(data, Key_metadados))
        THEN [throws |-> FALSE,
              radarData |-> radarOfSections(data, sections),
              barData |-> barOfScale(data),
              isAiData |-> TRUE]
        ELSE LET questions == questionsOf(data)
             IN  IF questions.t # "arr" THEN ChartThrows
                 ELSE LET r == scoreQuestions(questions.m, << >>, << >>)
                      IN  IF r.throws THEN ChartThrows
                          ELSE [throws |-> FALSE,
                                radarData |->
                                    [ i \in 1..Len(r.categoryScores) |->
                                        [subject |-> Shortened(r.categoryScores[i].cat),
                                         fullSubject |-> r.categoryScores[i].cat,
                                         A |-> Average(r.categoryScores[i]),
                                         fullMark |-> 5] ],
                                barData |->
                                    [ i \in 1..Len(r.profileCounts) |->
                                        [name |-> r.profileCounts[i].tag,
                                         value |-> r.profileCounts[i].count] ],
                                isAiData |-> FALSE]

\* filteredResults: r.result?.test_title?.toLowerCase() raises for a title
\* that is no string
filterThrows(result) ==
    LET title == GetOptional(result, Key_test_title)
    IN  ~Nullish(title) /\ title.t # "str"

---------------------------------------------------------------------------
(* Result viewer: the result column of a fetched row *)

\* objects a result column holds
Objects ==
    { EmptyObject,
      JsObject(<< "u" >>, << JsNumber(1) >>),
      JsObject(<< >>, << EmptyObject >>),
      JsObject(<< "\"" >>, << JsString(<< "{", "}" >>) >>),
      JsObject(<< "\\", "NL" >>, << JsNull >>),
      JsObject(<< "l" >>, << JsString(<< "\"", "1", "\"" >>) >>) }

\* the text of o string-encoded k - 1 times: Nest(o, 1) is o's text
RECURSIVE Nest(_, _)
Nest(o, k) ==
    IF k <= 1 THEN Stringify(o) ELSE Stringify(JsString(Nest(o, k - 1)))

\* a question as submitTest puts it into the payload's body
AnsweredQuestion(category, qType, answered) ==
    JsRecord(<< << Key_category, JsString(category) >>,
                << Key_type, JsString(qType) >>,
                << Key_resposta, answered >> >>)

\* the payload of a submission: a scale answer 4 and a most/least answer
RawPayload ==
    JsRecord(<< << Key_test_title, JsString(<< "T" >>) >>,
                << Key_body,
                   JsArray(<< AnsweredQuestion(<< "F", "o", "c", "o" >>, Text_scale,
                                  JsRecord(<< << << "t", "e", "x", "t" >>, JsString(<< "4" >>) >>,
                                              << Key_value, JsString(<< "4" >>) >> >>)),
                              AnsweredQuestion(<< "F", "o", "c", "o" >>, Text_choice,
                                  JsRecord(<< << Key_most,
                                                 JsRecord(<< << Key_value, JsString(<< "L", "i", "d", "e", "r" >>) >> >>) >>,
                                              << << "l", "e", "a", "s", "t" >>,
                                                 JsRecord(<< << Key_value, JsString(<< "2" >>) >> >>) >> >>)) >>) >> >>)

\* an analysis written back by the answer-processing workflow
AiPayload ==
    JsRecord(<< << Key_lideranca,
                   JsRecord(<< << << "f", "o", "c", "o", "_", "a" >>, JsNumber(2) >>,
                               << << "n" >>, JsString(<< "x" >>) >> >>) >>,
                << Key_metadados,
                   JsRecord(<< << Key_escala,
                                  JsRecord(<< << << "L", "i", "d", "e", "r" >>, JsNumber(2) >> >>) >> >>) >> >>)

Key_least == << "l", "e", "a", "s", "t" >>

\* resposta of a scale or single-choice question, and of a most/least one
ValueAnswer(v) ==
    JsRecord(<< << << "t", "e", "x", "t" >>, JsString(v) >>,
                << Key_value, JsString(v) >> >>)
MostLeastAnswer(m, l) ==
    JsRecord(<< << Key_most, JsRecord(<< << Key_value, JsString(m) >> >>) >>,
                << Key_least, JsRecord(<< << Key_value, JsString(l) >> >>) >> >>)

\* questions of a stored payload: scale answers in two categories, one
\* without category, one unanswered; single choices with a profile tag and
\* with a number; most/least choices
BodyQuestions ==
    { AnsweredQuestion(c, Text_scale, ValueAnswer(v))
        : c \in { << "A" >>, << "B" >> }, v \in { << "4" >>, << "1" >> } }
    \cup { AnsweredQuestion(<< "A" >>, Text_scale, JsUndefined),
           AnsweredQuestion(<< >>, Text_scale, ValueAnswer(<< "4" >>)) }
    \cup { AnsweredQuestion(<< "A" >>, Text_choice, ValueAnswer(v))
             : v \in { << "L" >>, << "3" >> } }
    \cup { AnsweredQuestion(<< "A" >>, Text_choice, MostLeastAnswer(a[1], a[2]))
             : a \in { << << "L" >>, << "E" >> >>,
                       << << "E" >>, << "L" >> >>,
                       << << "2" >>, << "L" >> >> } }

\* the payloads submitTest sends: a body of up to MaxBody questions
RawBodies ==
    { JsRecord(<< << Key_body, JsArray(qs) >> >>)
        : qs \in UNION { [1..k -> BodyQuestions] : k \in 0..MaxBody } }

\* the members an analysis can carry: each competency section with its
\* entries, and the calculation metadata with or without the score scale
SectionMember(i) ==
    << sections[i],
       JsRecord(<< << << "k", "_", Digits[i + 1] >>, JsNumber(1) >>,
                   << << "n", Digits[i + 1] >>, JsString(<< "x" >>) >> >>) >>
ScaleMember(withScale) ==
    << Key_metadados,
       IF withScale
       THEN JsRecord(<< << Key_escala,
                           JsRecord(<< << << "L" >>, JsNumber(2) >>,
                                       << << "E" >>, JsString(<< "9" >>) >> >>) >> >>)
       ELSE JsRecord(<< << << "v" >>, JsNumber(1) >> >>) >>

\* members of an analysis in the order the workflow writes them
RECURSIVE MembersOf(_, _)
MembersOf(present, i) ==
    IF i > Len(sections) THEN << >>
    ELSE (IF i \in present THEN << SectionMember(i) >> ELSE << >>)
         \o MembersOf(present, i + 1)

\* analyses holding any of the four sections, with and without metadata
Analyses ==
    { JsRecord(MembersOf(present, 1) \o meta)
        : present \in SUBSET (1..Len(sections)),
          meta \in { << >>, << ScaleMember(TRUE) >>, << ScaleMember(FALSE) >> } }

\* result columns of type jsonb: payloads, and objects of other shapes
PayloadObjects ==
    RawBodies \cup Analyses \cup
    { RawPayload,
      AiPayload,
      JsRecord(<< << Key_body, JsNumber(1) >> >>),
      JsRecord(<< << Key_body, JsArray(<< JsNull >>) >> >>),
      JsRecord(<< << Key_test_title, JsNumber(1) >> >>),
      JsArray(<< >>) }

\* what the result column of a row can hold
ResultColumns ==
    { JsString(txt) : txt \in TextsUpTo(MaxTextLen) }
    \cup { JsString(Nest(o, k)) : o \in Objects, k \in 1..MaxNest }
    \cup Objects
    \cup PayloadObjects
    \cup { JsNumber(1), JsNumber(2), JsNull, JsUndefined }

InitParse ==
    /\ profile = [status |-> "completed", completed_date |-> "today",
                  assigned_test_id |-> NoTestId]
    /\ testRow = [active |-> TRUE, questions |-> << >>]
    /\ adminSaves = 0
    /\ delivered = 0
    /\ timers = 0
    /\ role = "admin"
    /\ InitView
    /\ InitHistory
    /\ pInput \in ResultColumns
    /\ pOnce = Unset
    /\ pTwice = Unset
    /\ pStage = "fetched"
    /\ pChart = Unset
    /\ InitConsoleIdle

\* fetchResults maps each row's result column through safeParseJSON
fetchResults ==
    /\ pStage = "fetched"
    /\ pOnce' = safeParseJSON(pInput)
    /\ pStage' = "parsed"
    /\ UNCHANGED << pInput, pTwice, pChart >>
    /\ UNCHANGED << runnerVars, role, consoleVars >>

\* safeParseJSON applied to the result fetchResults stored
safeParseJSON_again ==
    /\ pStage = "parsed"
    /\ pTwice' = safeParseJSON(pOnce)
    /\ pStage' = "reparsed"
    /\ UNCHANGED << pInput, pOnce, pChart >>
    /\ UNCHANGED << runnerVars, role, consoleVars >>

\* the row is selected and its modal renders: calculateChartData(selectedResult)
setSelectedResult ==
    /\ pStage = "parsed"
    /\ pChart = Unset
    /\ pChart' = calculateChartData(pOnce)
    /\ UNCHANGED << pInput, pOnce, pTwice, pStage >>
    /\ UNCHANGED << runnerVars, role, consoleVars >>

\* the modal shows 'Não há dados suficientes para gerar o gráfico.' in place
\* of the radar chart, 'Nenhuma tag de perfil identificada.' in place of the bars
radarPlaceholder == ~pChart.throws /\ Len(pChart.radarData) = 0
barPlaceholder == ~pChart.throws /\ Len(pChart.barData) = 0

NextParse ==
    \/ fetchResults
    \/ safeParseJSON_again
    \/ setSelectedResult

SpecParse == InitParse /\ [][NextParse]_vars

\* C10: for every object o, the text of o and every string encoding of it up
\* to MaxNest levels parse to o itself, which is what parsing o's text once
\* gives; an input that is already an object comes back as is; and applying
\* safeParseJSON to its own result returns that result unchanged.
C10_Unwrap ==
    /\ pStage \in { "parsed", "reparsed" } =>
          /\ \A o \in Objects : \A k \in 1..MaxNest :
                pInput = JsString(Nest(o, k)) =>
                    /\ pOnce = o
                    /\ pOnce = JSONparse(Stringify(o)).v
          /\ pInput.t = "obj" => pOnce = pInput
    /\ pStage = "reparsed" => pTwice = pOnce

\* an object encoded as a string inside a string was parsed, and parsed again
C10_Witness ==
    /\ pStage = "reparsed"
    /\ \E o \in Objects : o # EmptyObject /\ pInput = JsString(Nest(o, 3))
    /\ pOnce.t = "obj"
    /\ pOnce # EmptyObject

---------------------------------------------------------------------------
(* C11 *)

\* C11: a result column holding invalid JSON text raises nowhere:
\* safeParseJSON returns the empty object for it, the list filter does not
\* raise on it, and calculateChartData returns a radar series and a bar
\* series without entries, so both placeholders are shown.
C11_InvalidJsonText ==
    (pInput.t = "str" /\ ~JSONparse(pInput.s).ok) =>
        /\ pStage # "fetched" => (pOnce = EmptyObject /\ ~filterThrows(pOnce))
        /\ pChart # Unset =>
              /\ ~pChart.throws
              /\ pChart.radarData = << >>
              /\ pChart.barData = << >>
              /\ radarPlaceholder
              /\ barPlaceholder

\* the modal of a row whose column held an unterminated object has rendered
C11_Witness ==
    /\ pInput = JsString(<< "{", "\"", "u", "\"" >>)
    /\ pOnce = EmptyObject
    /\ pChart # Unset
    /\ radarPlaceholder

---------------------------------------------------------------------------
(* C12 *)

\* C12: whenever submitTest hands a payload to the webhook request, its body
\* has one entry per question of the loaded test, in the test's order, and
\* entry i carries question i's id and as resposta the answer recorded for
\* that question: for a most/least question its most and least selections,
\* for any other question the recorded answer itself.
C12_PayloadBody ==
    [][ \A s \in Slots :
          (runs[s].pc # "webhook" /\ runs'[s].pc = "webhook")
          => LET body == runs'[s].body
                 qs == test.questions
             IN  /\ Len(body) = Len(qs)
                 /\ \A i \in 1..Len(qs) :
                       /\ body[i].id = qs[i].id
                       /\ IF qs[i].type = "choice" /\ qs[i].variation = "most_least"
                          THEN /\ body[i].resposta.most = answers[qs[i].id].most
                               /\ body[i].resposta.least = answers[qs[i].id].least
                          ELSE body[i].resposta = answers[qs[i].id] ]_vars

\* a webhook request is under way whose body holds a scale answer followed
\* by a most/least answer
C12_Witness ==
    \E s \in Slots :
        /\ runs[s].pc = "webhook"
        /\ Len(runs[s].body) = 2
        /\ runs[s].body[1].id = 1
        /\ runs[s].body[1].resposta.kind = "tv"
        /\ runs[s].body[2].id = 2
        /\ runs[s].body[2].resposta.kind = "ml"
        /\ runs[s].body[2].resposta.most # runs[s].body[2].resposta.least


\* ---------------------------------------------------------------------
\* The session resolver of App: startup session check, sign-in and
\* sign-out notifications, the login form, the render gate and the
\* account creation of the administrator console.
\* ---------------------------------------------------------------------

Views == { "dashboard", "candidates", "tests", "results", "admin-users" }
Emails == { "", "ana@x", "caio@x" }
Passwords == { "", "pw" }

\* user_metadata.role === 'admin', everything else is a candidate
roleOf(user) == IF user.role = "admin" THEN "admin" ELSE "candidate"

\* a || b on strings
OrElse(a, b) == IF a # "" THEN a ELSE b

AppScreen_noStartupGate ==
    IF role = "none" THEN "login"
    ELSE IF role = "candidate" THEN "candidate"
    ELSE "admin"

\* what App renders
AppScreen ==
    IF isCheckingSession THEN "loading"
    ELSE IF role = "none" THEN "login"
    ELSE IF role = "candidate" THEN "candidate"
    ELSE "admin"

SIGNED_OUT_keepsRole ==
    /\ role' = role
    /\ adminName' = ""
    /\ adminEmail' = ""
    /\ candidateId' = ""
    /\ email' = ""
    /\ password' = ""
    /\ view' = "dashboard"

\* the SIGNED_OUT branch of the onAuthStateChange callback
SIGNED_OUT ==
    /\ role' = "none"
    /\ adminName' = ""
    /\ adminEmail' = ""
    /\ candidateId' = ""
    /\ email' = ""
    /\ password' = ""
    /\ view' = "dashboard"

\* the SIGNED_IN branch of the onAuthStateChange callback
SIGNED_IN(user) ==
    IF roleOf(user) = "admin"
    THEN /\ role' = "admin"
         /\ adminName' = OrElse(user.name, "Admin")
         /\ adminEmail' = OrElse(user.email, "")
         /\ UNCHANGED candidateId
    ELSE /\ role' = "candidate"
         /\ candidateId' = user.id
         /\ UNCHANGED << adminName, adminEmail >>

resolve_alwaysCandidate(user, typed) ==
    /\ role' = "candidate"
    /\ candidateId' = user.id
    /\ view' = "candidate-test"
    /\ UNCHANGED << adminName, adminEmail >>

\* the branch of checkSession and of handleLogin for a user that is there;
\* typed is the e-mail the login form holds ('' in checkSession)
resolve(user, typed) ==
    IF roleOf(user) = "admin"
    THEN /\ role' = "admin"
         /\ view' = "dashboard"
         /\ adminName' = OrElse(user.name, "Admin")
         /\ adminEmail' = OrElse(user.email, typed)
         /\ UNCHANGED candidateId
    ELSE /\ role' = "candidate"
         /\ candidateId' = user.id
         /\ view' = "candidate-test"
         /\ UNCHANGED << adminName, adminEmail >>

frozenApp == << runnerVars, parseVars, adminVars >>

\* App is mounted: the session check is pending, a persisted session may
\* be there, and the client may announce it to the subscriber
InitSession ==
    /\ role = "none"
    /\ InitApp
    /\ isCheckingSession = TRUE
    /\ session \in Users \cup { NoUser }
    /\ announce \in IF session = NoUser THEN { FALSE } ELSE BOOLEAN
    /\ sessionRead = "pending"
    /\ authEvents = 0
    /\ loginReq = NoRequest
    /\ tempSession = NoUser
    /\ signups = 0
    /\ InitAdminIdle
    /\ InitBackendIdle
    /\ InitView
    /\ InitHistory
    /\ InitParseIdle

\* the client announces the recovered session before getSession settles
announceSession ==
    /\ announce
    /\ isCheckingSession
    /\ session # NoUser
    /\ authEvents < MaxNotifications
    /\ SIGNED_IN(session)
    /\ announce' = FALSE
    /\ authEvents' = authEvents + 1
    /\ UNCHANGED << session, sessionRead, loginReq, tempSession, signups, view, email,
                    password, isLoading, loginError, isCheckingSession,
                    frozenApp >>

\* getSession settles, or rejects
checkSession ==
    /\ isCheckingSession
    /\ \E ok \in BOOLEAN :
          /\ sessionRead' = IF ok THEN "read" ELSE "failed"
          /\ IF ok /\ session # NoUser
             THEN resolve(session, "")
             ELSE UNCHANGED << role, view, candidateId, adminName, adminEmail >>
    /\ isCheckingSession' = FALSE
    /\ announce' = FALSE
    /\ UNCHANGED << session, authEvents, loginReq, tempSession, signups,
                    email, password, isLoading, loginError, frozenApp >>

\* the session ends outside this page (it expires, or the user signs out
\* in another tab) and the client notifies SIGNED_OUT
sessionEnded ==
    /\ session # NoUser
    /\ authEvents < MaxNotifications
    /\ session' = NoUser
    /\ announce' = FALSE
    /\ authEvents' = authEvents + 1
    /\ SIGNED_OUT
    /\ UNCHANGED << sessionRead, loginReq, tempSession, signups, isLoading, loginError,
                    isCheckingSession, frozenApp >>

\* the user signs in in another tab and the client notifies SIGNED_IN
signedInElsewhere ==
    /\ session = NoUser
    /\ authEvents < MaxNotifications
    /\ \E user \in Users :
          /\ session' = user
          /\ SIGNED_IN(user)
    /\ authEvents' = authEvents + 1
    /\ UNCHANGED << announce, sessionRead, loginReq, tempSession, signups, view, email,
                    password, isLoading, loginError, isCheckingSession,
                    frozenApp >>

setEmail ==
    /\ AppScreen = "login"
    /\ \E typed \in Emails : email' = typed
    /\ UNCHANGED << role, authVars, view, candidateId, adminName, adminEmail,
                    password, isLoading, loginError, isCheckingSession,
                    frozenApp >>

setPassword ==
    /\ AppScreen = "login"
    /\ \E typed \in Passwords : password' = typed
    /\ UNCHANGED << role, authVars, view, candidateId, adminName, adminEmail,
                    email, isLoading, loginError, isCheckingSession,
                    frozenApp >>

\* the login form is submitted: handleLogin up to its await
App_handleLogin ==
    /\ AppScreen = "login"
    /\ ~isLoading
    /\ email # ""
    /\ password # ""
    /\ isLoading' = TRUE
    /\ loginError' = << >>
    /\ loginReq' = [email |-> email, password |-> password]
    /\ UNCHANGED << role, session, announce, sessionRead, authEvents, tempSession, signups,
                    view, candidateId, adminName, adminEmail, email, password,
                    isCheckingSession, frozenApp >>

\* texts of the sign-in form, as sequences of characters
Text_invalidCredentials ==
    << "I", "n", "v", "a", "l", "i", "d", " ", "l", "o", "g", "i", "n",
       " ", "c", "r", "e", "d", "e", "n", "t", "i", "a", "l", "s" >>
Text_notConfirmed ==
    << "E", "m", "a", "i", "l", " ", "n", "o", "t", " ", "c", "o", "n",
       "f", "i", "r", "m", "e", "d" >>
Text_alreadyRegistered ==
    << "U", "s", "e", "r", " ", "a", "l", "r", "e", "a", "d", "y", " ",
       "r", "e", "g", "i", "s", "t", "e", "r", "e", "d" >>
Text_failedToFetch ==
    << "F", "a", "i", "l", "e", "d", " ", "t", "o", " ", "f", "e", "t",
       "c", "h" >>

\* messages of the authentication service: the known ones bare and inside
\* a longer text, a message holding two of them, and a network failure
AuthErrors ==
    { Text_invalidCredentials,
      Text_notConfirmed,
      Text_alreadyRegistered,
      << "4", "0", "0", ":", " " >> \o Text_invalidCredentials \o << "." >>,
      Text_alreadyRegistered \o << ";", " " >> \o Text_notConfirmed,
      Text_failedToFetch }

\* msg.includes(part)
Includes_prefixOnly(msg, part) ==
    Len(part) <= Len(msg) /\ SubSeq(msg, 1, Len(part)) = part

Includes(msg, part) ==
    \E i \in 0..(Len(msg) - Len(part)) : SubSeq(msg, i + 1, i + Len(part)) = part

\* the texts handleLogin shows in place of the known messages
Shown_invalidCredentials ==
    << "E", "-", "m", "a", "i", "l", " ", "o", "u", " ", "s", "e", "n",
       "h", "a", " ", "i", "n", "c", "o", "r", "r", "e", "t", "o", "s",
       "." >>
Shown_notConfirmed ==
    << "L", "o", "g", "i", "n", " ", "b", "l", "o", "q", "u", "e", "a",
       "d", "o", ":", " ", "E", "-", "m", "a", "i", "l", " ", "n", "a",
       "o", " ", "c", "o", "n", "f", "i", "r", "m", "a", "d", "o",
       "." >>
Shown_alreadyRegistered ==
    << "E", "s", "t", "e", " ", "e", "-", "m", "a", "i", "l", " ", "j",
       "a", " ", "e", "s", "t", "a", " ", "c", "a", "d", "a", "s", "t",
       "r", "a", "d", "o", "." >>

\* the message handleLogin stores for err.message
translate(msg) ==
    IF Includes(msg, Text_invalidCredentials) THEN Shown_invalidCredentials
    ELSE IF Includes(msg, Text_notConfirmed) THEN Shown_notConfirmed
    ELSE IF Includes(msg, Text_alreadyRegistered) THEN Shown_alreadyRegistered
    ELSE msg

\* signInWithPassword settles: on success the client stores the session and
\* notifies SIGNED_IN, then handleLogin continues
App_handleLogin_settled ==
    /\ loginReq # NoRequest
    /\ \/ /\ authEvents < MaxNotifications
          /\ \E user \in Users :
                /\ user.email \in { loginReq.email, "" }
                /\ session' = user
                /\ resolve(user, loginReq.email)
          /\ authEvents' = authEvents + 1
          /\ UNCHANGED loginError
       \/ /\ \E msg \in AuthErrors : loginError' = translate(msg)
          /\ UNCHANGED << role, session, authEvents, view, candidateId,
                          adminName, adminEmail >>
    /\ isLoading' = FALSE
    /\ loginReq' = NoRequest
    /\ UNCHANGED << announce, sessionRead, tempSession, signups, email, password,
                    isCheckingSession, frozenApp >>

\* Layout's menu
setView ==
    /\ AppScreen = "admin"
    /\ \E v \in Views : view' = v
    /\ UNCHANGED << role, authVars, candidateId, adminName, adminEmail, email,
                    password, isLoading, loginError, isCheckingSession,
                    frozenApp >>

\* signOut, from the admin shell or from the runner's onComplete; when it
\* succeeds the client drops the session and notifies SIGNED_OUT
handleLogout ==
    /\ AppScreen \in { "admin", "candidate" }
    /\ \/ /\ authEvents < MaxNotifications
          /\ session' = NoUser
          /\ authEvents' = authEvents + 1
          /\ SIGNED_OUT
       \/ UNCHANGED << role, session, authEvents, view, candidateId,
                       adminName, adminEmail, email, password >>
    /\ UNCHANGED << announce, sessionRead, loginReq, tempSession, signups, isLoading,
                    loginError, isCheckingSession, frozenApp >>

\* the client an account is created with: "transient" is a client made for
\* the one call with persistSession false, "main" the application's client
accountClient_main == "main"

accountClient == "transient"

\* auth.signUp on a client: a transient client keeps the new session to
\* itself, the application's client would store it and notify SIGNED_IN
signUp(client, user, ok) ==
    IF client = "transient"
    THEN /\ tempSession' = IF ok THEN user ELSE NoUser
         /\ UNCHANGED << role, session, authEvents, view, candidateId,
                         adminName, adminEmail >>
    ELSE /\ UNCHANGED tempSession
         /\ IF ok
            THEN /\ session' = user
                 /\ authEvents' = authEvents + 1
                 /\ SIGNED_IN(user)
                 /\ UNCHANGED view
            ELSE UNCHANGED << role, session, authEvents, view, candidateId,
                              adminName, adminEmail >>

NewCandidate == [id |-> "n1", role |-> "candidate", name |-> "Nina", email |-> "nina@x"]
NewAdmin == [id |-> "n2", role |-> "admin", name |-> "Noel", email |-> "noel@x"]

\* CandidatesList.handleSave without an editing id
CandidatesList_handleSave_create ==
    /\ AppScreen = "admin"
    /\ view = "candidates"
    /\ signups < MaxSignups
    /\ authEvents < MaxNotifications
    /\ \E ok \in BOOLEAN : signUp(accountClient, NewCandidate, ok)
    /\ signups' = signups + 1
    /\ UNCHANGED << announce, sessionRead, loginReq, email, password, isLoading,
                    loginError, isCheckingSession, frozenApp >>

AdminUsersList_handleCreateAdmin ==
    /\ AppScreen = "admin"
    /\ view = "admin-users"
    /\ signups < MaxSignups
    /\ authEvents < MaxNotifications
    /\ \E ok \in BOOLEAN : signUp(accountClient, NewAdmin, ok)
    /\ signups' = signups + 1
    /\ UNCHANGED << announce, sessionRead, loginReq, email, password, isLoading,
                    loginError, isCheckingSession, frozenApp >>

NextApp ==
    \/ announceSession
    \/ checkSession
    \/ sessionEnded
    \/ signedInElsewhere
    \/ setEmail
    \/ setPassword
    \/ App_handleLogin
    \/ App_handleLogin_settled
    \/ setView
    \/ handleLogout
    \/ CandidatesList_handleSave_create
    \/ AdminUsersList_handleCreateAdmin

SpecApp == InitSession /\ [][NextApp]_vars


\* a sign-out notification is handled in this step
SignOutNotified == authEvents' = authEvents + 1 /\ session' = NoUser

\* a sign-in notification is handled in this step
SignInNotified == authEvents' = authEvents + 1 /\ session' # NoUser

Cleared ==
    /\ role' = "none"
    /\ adminName' = ""
    /\ adminEmail' = ""
    /\ candidateId' = ""
    /\ email' = ""
    /\ password' = ""
    /\ view' = "dashboard"

\* C13, as stated: a sign-out notification, from any prior state, clears
\* role, admin name and email, candidate id and the form's email and
\* password, resets the view to 'dashboard', and the login form renders.
C13_LoginFormAfterSignOut ==
    [][ SignOutNotified => (Cleared /\ AppScreen' = "login") ]_vars

\* C13, amended: a sign-out notification, from any prior state, clears
\* role, admin name and email, candidate id and the form's email and
\* password and resets the view to 'dashboard'; the login form renders
\* afterwards unless the startup session check is still pending, and then
\* the loading screen renders and neither shell does.
C13_SignOutClears ==
    [][ SignOutNotified =>
          /\ Cleared
          /\ ~isCheckingSession' => AppScreen' = "login"
          /\ isCheckingSession' => AppScreen' = "loading" ]_vars

\* an administrator with a typed login form left over signed out
C13_Witness ==
    /\ authEvents = 2
    /\ session = NoUser
    /\ sessionRead = "read"
    /\ role = "none"
    /\ AppScreen = "login"
    /\ view = "dashboard"
    /\ email = ""
    /\ loginError = << >>

\* C14: checkSession classifies the session it read (admin: role admin,
\* view 'dashboard'; any other: role candidate, candidateId the user's id,
\* view 'candidate-test'; none: role stays null and the login form shows),
\* and after every sign-in notification role and candidateId or the admin
\* identity are those of the notified session's user.
C14_Resolve ==
    [][ /\ (isCheckingSession /\ ~isCheckingSession' /\ sessionRead' = "read") =>
             /\ session.role = "admin" =>
                   role' = "admin" /\ view' = "dashboard"
             /\ (session # NoUser /\ session.role # "admin") =>
                   /\ role' = "candidate"
                   /\ candidateId' = session.id
                   /\ view' = "candidate-test"
             /\ session = NoUser =>
                   role = "none" /\ role' = "none" /\ AppScreen' = "login"
        /\ SignInNotified =>
             /\ session'.role = "admin" =>
                   /\ role' = "admin"
                   /\ adminName' = OrElse(session'.name, "Admin")
                   /\ session'.email # "" => adminEmail' = session'.email
             /\ session'.role # "admin" =>
                   /\ role' = "candidate"
                   /\ candidateId' = session'.id ]_vars

\* the startup check found the session of an administrator without a name
C14_Witness ==
    /\ sessionRead = "read"
    /\ authEvents = 0
    /\ session.id = "a2"
    /\ role = "admin"
    /\ adminName = "Admin"
    /\ view = "dashboard"
    /\ AppScreen = "admin"

\* C15: the admin shell renders only while role is admin, the candidate
\* runner only while role is candidate and with the signed-in user's id,
\* never empty, as candidateId, and neither renders while the startup
\* session check is pending or role is null.
C15_RenderGate ==
    /\ AppScreen = "admin" => role = "admin"
    /\ AppScreen = "candidate" =>
          /\ role = "candidate"
          /\ candidateId # ""
          /\ candidateId = session.id
    /\ (isCheckingSession \/ role = "none") => AppScreen \notin { "admin", "candidate" }

\* a candidate's session was announced while the startup check is pending
C15_Witness ==
    /\ isCheckingSession
    /\ role = "candidate"
    /\ candidateId = "c1"
    /\ AppScreen = "loading"

\* C16: creating a candidate or an admin account leaves the persisted
\* session, the role (admin), the admin name and email and the view as
\* they were, whether the sign-up succeeds or not, and hands no sign-in
\* or sign-out notification to the session resolver.
C16_AccountCreationIsolated ==
    [][ signups' = signups + 1 =>
          /\ role = "admin"
          /\ UNCHANGED << session, role, adminName, adminEmail, view, authEvents >> ]_vars

\* an account was created while an administrator is signed in
C16_Witness ==
    /\ signups = 1
    /\ tempSession = NewCandidate
    /\ role = "admin"
    /\ session.role = "admin"
    /\ view = "candidates"


\* ---------------------------------------------------------------------
\* Fetch-on-mount of the five admin views: CandidatesList.fetchData,
\* AdminUsersList.fetchAdmins, TestsManager.fetchTests (its list),
\* ResultsAnalysis.fetchResults and AdminDashboard.fetchDashboardData.
\* ---------------------------------------------------------------------

\* fetches issued by one session of the console
MaxFetches == 4

\* error.message of a failed request; "" is an error without a message
Failures == { "infinite recursion detected", "Failed to fetch", "" }

\* the message the catch block of a view's fetch stores
storedMessage(name, old, msg) ==
    CASE name = "candidates" ->
           IF msg = "infinite recursion detected"
           THEN "Backend: Detectada recursao infinita (RLS)."
           ELSE IF msg = "" THEN "Erro ao carregar dados: {}"
           ELSE "Erro ao carregar dados: Failed to fetch"
      [] name = "admin-users" -> old
      [] name = "tests" ->
           IF msg = "" THEN "Erro ao carregar testes: undefined"
           ELSE IF msg = "Failed to fetch" THEN "Erro ao carregar testes: Failed to fetch"
           ELSE "Erro ao carregar testes: infinite recursion detected"
      [] name = "results" ->
           IF msg = "" THEN "Erro desconhecido ao carregar resultados." ELSE msg
      [] OTHER -> "Nao foi possivel carregar os dados do painel."

\* the rows a view holds after a failed fetch
rowsAfterFailure(name, old) == IF name = "candidates" THEN "initial" ELSE old

\* the view renders its message about the fetch
bannerShown(v) ==
    CASE v.name = "candidates" -> ~v.loading /\ v.message # ""
      [] v.name = "admin-users" -> FALSE
      [] v.name = "tests" -> ~v.loading /\ v.message # ""
      [] v.name = "results" -> v.message # ""
      [] OTHER -> ~v.loading /\ v.message # ""

\* the view renders a control that calls its fetch again
tryAgainShown(v) ==
    CASE v.name = "tests" -> ~v.loading /\ v.message # ""
      [] v.name = "dashboard" -> ~v.loading /\ v.message # ""
      [] OTHER -> FALSE

\* the start of a view's fetch, up to its await
fetchStart(v, why) ==
    [v EXCEPT !.loading = TRUE,
              !.message = IF v.name = "admin-users" THEN v.message ELSE "",
              !.pending = v.pending + 1,
              !.trigger = why,
              !.fetches = v.fetches + 1]

\* a view is mounted by renderAdminContent and its effect starts the fetch
Mounted(name, fetches) ==
    fetchStart([name |-> name, loading |-> TRUE, message |-> "", rows |-> "initial",
                pending |-> 0, outcome |-> "none", trigger |-> "none",
                fetches |-> fetches], "mount")

InitFetch ==
    /\ \E name \in Views : adminView = Mounted(name, 0)
    /\ builder = TestsManagerDefaults
    /\ testsTable = << >>
    /\ requests = [fetch |-> FALSE, save |-> NoSave, saves |-> 0,
                   edits |-> 0]
    /\ InitRosterIdle
    /\ role = "admin"
    /\ session = CHOOSE u \in Users : u.id = "a1"
    /\ announce = FALSE
    /\ sessionRead = "read"
    /\ authEvents = 0
    /\ loginReq = NoRequest
    /\ tempSession = NoUser
    /\ signups = 0
    /\ InitApp
    /\ isCheckingSession = FALSE
    /\ InitBackendIdle
    /\ InitView
    /\ InitHistory
    /\ InitParseIdle

frozenFetch == << runnerVars, role, parseVars, authVars, appVars, builder,
                 testsTable, requests, profilesTable, roster >>

\* the administrator picks a view in the menu: the view is mounted anew
mountView ==
    /\ adminView.fetches < MaxFetches
    /\ \E name \in Views : adminView' = Mounted(name, adminView.fetches)
    /\ UNCHANGED frozenFetch

\* the request of a fetch settles: try, catch and finally
fetchSettled ==
    /\ adminView.pending > 0
    /\ \/ adminView' = [adminView EXCEPT !.loading = FALSE,
                                         !.rows = "loaded",
                                         !.pending = adminView.pending - 1,
                                         !.outcome = "ok"]
       \/ \E msg \in Failures :
            adminView' =
              [adminView EXCEPT
                 !.loading = FALSE,
                 !.message = storedMessage(adminView.name, adminView.message, msg),
                 !.rows = rowsAfterFailure(adminView.name, adminView.rows),
                 !.pending = adminView.pending - 1,
                 !.outcome = "failed"]
    /\ UNCHANGED frozenFetch

\* "Tentar novamente"
tryAgain ==
    /\ tryAgainShown(adminView)
    /\ adminView.fetches < MaxFetches
    /\ adminView' = fetchStart(adminView, "tryAgain")
    /\ UNCHANGED frozenFetch

\* the timer handleCreateAdmin sets after a successful sign-up
fetchAdmins_afterCreate ==
    /\ adminView.name = "admin-users"
    /\ adminView.fetches < MaxFetches
    /\ adminView' = fetchStart(adminView, "created")
    /\ UNCHANGED frozenFetch

NextFetch ==
    \/ mountView
    \/ fetchSettled
    \/ tryAgain
    \/ fetchAdmins_afterCreate

SpecFetch == InitFetch /\ [][NextFetch]_vars

\* the last fetch of the mounted view failed and none is under way
FetchFailed == adminView.outcome = "failed" /\ adminView.pending = 0

\* C17: in each of the five admin views a failed fetch stores a non-empty
\* message that is shown as a banner, clears the loading flag, is not
\* re-issued automatically, and can be re-triggered by a 'try again' action.
C17_UniformFetchErrors ==
    /\ FetchFailed =>
          /\ adminView.message # ""
          /\ bannerShown(adminView)
          /\ ~adminView.loading
          /\ tryAgainShown(adminView)
    /\ (adminView.outcome = "failed" /\ adminView.pending > 0) =>
          adminView.trigger \in { "tryAgain", "created" }


\* ---------------------------------------------------------------------
\* The test builder: TestsManager
\* ---------------------------------------------------------------------

\* rows of table tests
MaxTests == 2
\* saves of one session of the builder
MaxSaves == 2
\* edits of drafts in one session of the builder
MaxEdits == 3

Titles == { "", "A" }
Descriptions == { "", "d" }

\* a row of table tests, and a test of the local list
TestRow(id, payload) ==
    [id |-> id, title |-> payload.title, description |-> payload.description,
     questions |-> payload.questions, active |-> payload.active]

\* the question handleCreateNew starts a draft with: no variation
FirstQuestion == Question(1, [type |-> "scale", variation |-> "undefined"])

\* the table the session starts with
StoredTests ==
    { << >>,
      << TestRow(1, Payload("A", "", << Question(1, [type |-> "choice", variation |-> "single"]) >>, FALSE)) >> }

payloadOf_noQuestions(b) == Payload(b.title, b.description, << >>, b.active)

\* const payload = { title, description, questions, active }
payloadOf(b) == Payload(b.title, b.description, b.questions, b.active)

\* tests.map(t => t.id === editingId ? { ...t, ...payload, id: editingId } : t)
replaceTest(list, id, payload) ==
    [ i \in 1..Len(list) |-> IF list[i].id = id THEN TestRow(id, payload) ELSE list[i] ]

\* the list of tests is what TestsManager renders
listShown(b) == ~b.isCreating /\ ~b.loading /\ b.errorMsg = ""

InitBuilder ==
    /\ testsTable \in StoredTests
    /\ builder = TestsManagerDefaults
    /\ requests = [fetch |-> TRUE, save |-> NoSave, saves |-> 0,
                   edits |-> 0]
    /\ adminView = NoView
    /\ InitRosterIdle
    /\ role = "admin"
    /\ session = CHOOSE u \in Users : u.id = "a1"
    /\ announce = FALSE
    /\ sessionRead = "read"
    /\ authEvents = 0
    /\ loginReq = NoRequest
    /\ tempSession = NoUser
    /\ signups = 0
    /\ InitApp
    /\ isCheckingSession = FALSE
    /\ InitBackendIdle
    /\ InitView
    /\ InitHistory
    /\ InitParseIdle

frozenBuilder == << runnerVars, role, parseVars, authVars, appVars, adminView,
                   profilesTable, roster >>

\* the request of fetchTests settles
fetchTests_settled ==
    /\ requests.fetch
    /\ \/ builder' = [builder EXCEPT !.tests = testsTable, !.loading = FALSE]
       \/ builder' = [builder EXCEPT !.errorMsg = "Erro ao carregar testes: Failed to fetch",
                                     !.loading = FALSE]
    /\ requests' = [requests EXCEPT !.fetch = FALSE]
    /\ UNCHANGED << testsTable, frozenBuilder >>

\* "Tentar novamente": fetchTests up to its await
fetchTests ==
    /\ ~builder.isCreating
    /\ ~builder.loading
    /\ builder.errorMsg # ""
    /\ builder' = [builder EXCEPT !.loading = TRUE, !.errorMsg = ""]
    /\ requests' = [requests EXCEPT !.fetch = TRUE]
    /\ UNCHANGED << testsTable, frozenBuilder >>

handleCreateNew ==
    /\ ~builder.isCreating
    /\ builder' = [builder EXCEPT !.editingId = 0,
                                  !.title = "",
                                  !.description = "",
                                  !.active = TRUE,
                                  !.questions = << FirstQuestion >>,
                                  !.isCreating = TRUE]
    /\ UNCHANGED << testsTable, requests, frozenBuilder >>

handleEdit ==
    /\ listShown(builder)
    /\ \E i \in 1..Len(builder.tests) :
          builder' = [builder EXCEPT !.editingId = builder.tests[i].id,
                                     !.title = builder.tests[i].title,
                                     !.description = builder.tests[i].description,
                                     !.active = builder.tests[i].active,
                                     !.questions = builder.tests[i].questions,
                                     !.isCreating = TRUE]
    /\ UNCHANGED << testsTable, requests, frozenBuilder >>

handleCancel ==
    /\ builder.isCreating
    /\ ~builder.isSaving
    /\ builder' = [builder EXCEPT !.isCreating = FALSE, !.editingId = 0, !.errorMsg = ""]
    /\ UNCHANGED << testsTable, requests, frozenBuilder >>

setTitle ==
    /\ builder.isCreating
    /\ requests.edits < MaxEdits
    /\ requests' = [requests EXCEPT !.edits = requests.edits + 1]
    /\ \E t \in Titles : builder' = [builder EXCEPT !.title = t]
    /\ UNCHANGED << testsTable, frozenBuilder >>

setDescription ==
    /\ builder.isCreating
    /\ requests.edits < MaxEdits
    /\ requests' = [requests EXCEPT !.edits = requests.edits + 1]
    /\ \E d \in Descriptions : builder' = [builder EXCEPT !.description = d]
    /\ UNCHANGED << testsTable, frozenBuilder >>

setActive ==
    /\ builder.isCreating
    /\ requests.edits < MaxEdits
    /\ requests' = [requests EXCEPT !.edits = requests.edits + 1]
    /\ builder' = [builder EXCEPT !.active = ~builder.active]
    /\ UNCHANGED << testsTable, frozenBuilder >>

addQuestion ==
    /\ builder.isCreating
    /\ requests.edits < MaxEdits
    /\ requests' = [requests EXCEPT !.edits = requests.edits + 1]
    /\ MaxId(builder.questions) < MaxQuestions
    /\ builder' = [builder EXCEPT !.questions =
                      Append(builder.questions,
                             Question(MaxId(builder.questions) + 1,
                                      [type |-> "scale", variation |-> "single"]))]
    /\ UNCHANGED << testsTable, frozenBuilder >>

updateQuestion ==
    /\ builder.isCreating
    /\ requests.edits < MaxEdits
    /\ requests' = [requests EXCEPT !.edits = requests.edits + 1]
    /\ \E i \in 1..Len(builder.questions), k \in Kinds :
          builder' = [builder EXCEPT !.questions[i] = Question(builder.questions[i].id, k)]
    /\ UNCHANGED << testsTable, frozenBuilder >>

removeQuestion ==
    /\ builder.isCreating
    /\ requests.edits < MaxEdits
    /\ requests' = [requests EXCEPT !.edits = requests.edits + 1]
    /\ \E i \in 1..Len(builder.questions) :
          builder' = [builder EXCEPT !.questions = RemoveAt(builder.questions, i)]
    /\ UNCHANGED << testsTable, frozenBuilder >>

\* handleSave with the title check left out
handleSave_noTitleCheck ==
    /\ builder.isCreating
    /\ ~builder.isSaving
    /\ requests.saves < MaxSaves
    /\ builder' = [builder EXCEPT !.isSaving = TRUE, !.errorMsg = ""]
    /\ requests' = [requests EXCEPT
                      !.save = [pending |-> TRUE, editingId |-> builder.editingId,
                                payload |-> payloadOf(builder), tests |-> builder.tests],
                      !.saves = requests.saves + 1]
    /\ UNCHANGED << testsTable, frozenBuilder >>

\* handleSave up to its await; without a title it only alerts.  saves
\* counts the calls.
handleSave ==
    /\ builder.isCreating
    /\ ~builder.isSaving
    /\ requests.saves < MaxSaves
    /\ IF builder.title = ""
       THEN /\ requests' = [requests EXCEPT !.saves = requests.saves + 1]
            /\ UNCHANGED builder
       ELSE /\ builder' = [builder EXCEPT !.isSaving = TRUE, !.errorMsg = ""]
            /\ requests' = [requests EXCEPT
                              !.save = [pending |-> TRUE, editingId |-> builder.editingId,
                                        payload |-> payloadOf(builder),
                                        tests |-> builder.tests],
                              !.saves = requests.saves + 1]
    /\ UNCHANGED << testsTable, frozenBuilder >>

\* the update or insert settles and handleSave continues with the values
\* it captured when it was called
handleSave_settled ==
    /\ requests.save.pending
    /\ LET s == requests.save
           row == TestRow(Len(testsTable) + 1, s.payload)
       IN  \/ /\ s.editingId # 0
              /\ testsTable' = replaceTest(testsTable, s.editingId, s.payload)
              /\ builder' = [builder EXCEPT
                               !.tests = replaceTest(s.tests, s.editingId, s.payload),
                               !.isCreating = FALSE,
                               !.editingId = 0,
                               !.isSaving = FALSE]
           \/ /\ s.editingId = 0
              /\ Len(testsTable) < MaxTests
              /\ testsTable' = << row >> \o testsTable
              /\ builder' = [builder EXCEPT
                               !.tests = << row >> \o s.tests,
                               !.isCreating = FALSE,
                               !.editingId = 0,
                               !.isSaving = FALSE]
           \/ /\ builder' = [builder EXCEPT !.errorMsg = "Erro ao salvar: Failed to fetch",
                                            !.isSaving = FALSE]
              /\ UNCHANGED testsTable
    /\ requests' = [requests EXCEPT !.save = NoSave]
    /\ UNCHANGED frozenBuilder

NextBuilder ==
    \/ fetchTests_settled
    \/ fetchTests
    \/ handleCreateNew
    \/ handleEdit
    \/ handleCancel
    \/ setTitle
    \/ setDescription
    \/ setActive
    \/ addQuestion
    \/ updateQuestion
    \/ removeQuestion
    \/ handleSave
    \/ handleSave_settled

SpecBuilder == InitBuilder /\ [][NextBuilder]_vars


\* handleSave is called in this step
SaveCalled == ~requests.save.pending /\ requests'.save.pending

\* the save of this step succeeded: the builder closes
SaveSucceeded ==
    /\ requests.save.pending
    /\ ~requests'.save.pending
    /\ builder'.errorMsg = builder.errorMsg

---------------------------------------------------------------------------
(* C19, C20 *)

\* a submitTest call passes its checks and sends the webhook request
SubmissionStarts == \E s \in Slots : runs[s].pc # "webhook" /\ runs'[s].pc = "webhook"

\* C19: once a profile is completed no step changes its status, the
\* candidate is never in the question flow, no submission starts and no
\* request reaches the webhook.
C19_CompletedFinal ==
    /\ [](profile.status = "completed" => Screen # "question")
    /\ [][ profile.status = "completed" =>
              /\ profile'.status = "completed"
              /\ ~SubmissionStarts
              /\ delivered' = delivered ]_vars

\* the candidate of a completed profile, whose assigned test an
\* administrator has changed since, is shown the already-taken screen
C19_Witness ==
    /\ profile.status = "completed"
    /\ adminSaves = 1
    /\ role = "candidate"
    /\ loadPc = "idle"
    /\ Screen = "taken"

\* C20: every status change is pending to in-progress or in-progress to
\* completed, and the profile is in-progress while its candidate answers.
C20_StatusPath ==
    /\ [](Screen = "question" => profile.status = "in-progress")
    /\ [][ profile'.status # profile.status =>
              << profile.status, profile'.status >> \in
                 { << "pending", "in-progress" >>, << "in-progress", "completed" >> } ]_vars

\* ---------------------------------------------------------------------
\* The runner's completion callback, final screen, step counter and
\* payload (specification Spec)
\* ---------------------------------------------------------------------

\* the screens that show a text or a control; the render that throws
\* shows nothing
Rendered == Screen \in { "loading", "taken", "error", "completed", "question" }

\* C21: in the mounted runner loading is lowered when no session load is
\* under way and isSubmitting when no submission is; a stored error is on
\* screen, with the exit button, as soon as the load has settled; the
\* runner always renders a screen.
C21_NeverStuck ==
    role = "candidate" =>
        /\ loadPc = "idle" => ~loading
        /\ RunsInFlight = { } => ~isSubmitting
        /\ (error # "" /\ ~loading) => Screen \in { "taken", "error" }
        /\ Rendered

\* the busy flags of App, of the fetch-on-mount views and of the test
\* builder are low when their request is not under way (invariants of
\* SpecApp, SpecFetch and SpecBuilder)
BusyFlags_App ==
    /\ sessionRead # "pending" => ~isCheckingSession
    /\ loginReq = NoRequest => ~isLoading
BusyFlags_Fetch == adminView.pending = 0 => ~adminView.loading
BusyFlags_Builder ==
    /\ ~requests.fetch => ~builder.loading
    /\ ~requests.save.pending => ~builder.isSaving

\* the 4-second timer of a successful submission calls onComplete
TimerFires == timers' < timers

\* C22: the sign-out of a completion timer hits only the candidate session
\* that set the timer: a timer never fires into a mounted runner that has
\* not completed a submission itself.
C22_SignOutOwnSession ==
    [][ (TimerFires /\ role = "candidate") => isCompleted ]_vars

\* C23: after a successful submission the runner shows the completed
\* screen until the session ends, and a mounted runner whose session load
\* has finished never starts the load again.
C23_CompletedTerminal ==
    /\ []((role = "candidate" /\ isCompleted) => Screen = "completed")
    /\ [][ (role = "candidate" /\ loadPc = "idle") => loadPc' = "idle" ]_vars

\* the render has passed the loading, already-taken, error and completed
\* screens and reads test.questions[currentStep]
QuestionRendered == Screen \in {"question", "crash"}

\* C24: whenever a question is rendered 0 <= currentStep < number of
\* questions, and inside one session currentStep starts at 0 and changes
\* only by +1.
C24_StepInRange ==
    /\ [](QuestionRendered =>
            (0 <= currentStep /\ currentStep < Len(test.questions)))
    /\ []((role = "candidate" /\ ~test.present) => currentStep = 0)
    /\ [][ (role = "candidate" /\ role' = "candidate")
              => currentStep' \in {currentStep, currentStep + 1} ]_vars

\* C25: when a submission builds its payload every question of the test
\* has a complete recorded answer, and no step changes the answer of a
\* question other than the one on screen.
C25_AllAnswered ==
    /\ [][ SubmissionStarts =>
              \A i \in 1..Len(test.questions) :
                  AnswerComplete(test.questions[i], answers[test.questions[i].id]) ]_vars
    /\ [][ (role = "candidate" /\ role' = "candidate" /\ test.present) =>
              \A q \in QIds :
                  answers'[q] # answers[q]
                  => (Screen = "question" /\ q = currentQuestion.id) ]_vars

\* ---------------------------------------------------------------------
\* The charts of the result viewer (specification SpecParse)
\* ---------------------------------------------------------------------

\* the questions of the selected row's payload
BodyOf == Get(pOnce, Key_body).m

\* the selected row holds a payload of raw answers and its charts are built
RawSelected ==
    /\ pChart # Unset
    /\ pOnce.t = "rec"
    /\ Get(pOnce, Key_body).t = "arr"
    /\ \A i \in 1..Len(BodyOf) : BodyOf[i].t = "rec"
    /\ \A k \in { sections[i] : i \in 1..Len(sections) } \cup { Key_metadados } :
          Get(pOnce, k) = JsUndefined

IsText(v) == v.t = "str" /\ v.s # << >>
IsNumeral(v) == IsText(v) /\ IsDigit(Head(v.s))
AnswerValue(q) == GetOptional(Get(q, Key_resposta), Key_value)
MostValue(q) == GetOptional(GetOptional(Get(q, Key_resposta), Key_most), Key_value)
LeastValue(q) == GetOptional(GetOptional(Get(q, Key_resposta), Key_least), Key_value)

\* the answered scale questions of category cat
ScaleAnswersIn(cat) ==
    { i \in 1..Len(BodyOf) :
        /\ Get(BodyOf[i], Key_type) = JsString(Text_scale)
        /\ Get(BodyOf[i], Key_category) = JsString(cat)
        /\ IsNumeral(AnswerValue(BodyOf[i])) }

RECURSIVE SumOfScale(_)
SumOfScale(S) ==
    IF S = { } THEN 0
    ELSE LET i == CHOOSE j \in S : TRUE
         IN  DigitVal(Head(AnswerValue(BodyOf[i]).s)) + SumOfScale(S \ { i })

\* the questions answered with tag: single choices and 'most' selections
ChoicesOf(tag) ==
    { i \in 1..Len(BodyOf) :
        /\ Get(BodyOf[i], Key_type) = JsString(Text_choice)
        /\ AnswerValue(BodyOf[i]) = JsString(tag) }
MostOf(tag) ==
    { i \in 1..Len(BodyOf) :
        /\ Get(BodyOf[i], Key_type) = JsString(Text_choice)
        /\ MostValue(BodyOf[i]) = JsString(tag) }

\* non-empty category names and textual answer values of the payload
CategoriesIn ==
    { Get(BodyOf[i], Key_category).s : i \in 1..Len(BodyOf) } \ { << >> }
TagsIn ==
    { v.s : v \in { w \in { AnswerValue(BodyOf[i]) : i \in 1..Len(BodyOf) }
                           \cup { MostValue(BodyOf[i]) : i \in 1..Len(BodyOf) }
                           \cup { LeastValue(BodyOf[i]) : i \in 1..Len(BodyOf) } :
                      IsText(w) /\ ~IsNumeral(w) } }

\* C27: for a payload of raw answers the radar series has exactly one
\* point per category with an answered scale question, valued sum / count
\* to one decimal, and the bar series exactly one bar per textual choice
\* value, valued the number of single-choice and 'most' answers with it;
\* 'least' selections and numeric values make no bar.
C27_RawCharts ==
    RawSelected =>
        /\ ~pChart.throws
        /\ ~pChart.isAiData
        /\ \A i \in 1..Len(pChart.radarData) :
              /\ pChart.radarData[i].fullSubject \in CategoriesIn
              /\ ScaleAnswersIn(pChart.radarData[i].fullSubject) # { }
        /\ \A cat \in CategoriesIn :
              LET S == ScaleAnswersIn(cat)
                  n == Cardinality(S)
                  at == { i \in 1..Len(pChart.radarData) :
                            pChart.radarData[i].fullSubject = cat }
              IN  S # { } =>
                    /\ Cardinality(at) = 1
                    /\ \A i \in at :
                          LET tenths == pChart.radarData[i].A.tenths
                          IN  /\ ~pChart.radarData[i].A.nan
                              /\ 2 * (10 * SumOfScale(S) - n * tenths) <= n
                              /\ 2 * (n * tenths - 10 * SumOfScale(S)) <= n
        /\ \A i \in 1..Len(pChart.barData) : pChart.barData[i].name \in TagsIn
        /\ \A tag \in TagsIn :
              LET count == Cardinality(ChoicesOf(tag)) + Cardinality(MostOf(tag))
                  at == { i \in 1..Len(pChart.barData) : pChart.barData[i].name = tag }
              IN  /\ count = 0 => at = { }
                  /\ count > 0 =>
                        /\ Cardinality(at) = 1
                        /\ \A i \in at : pChart.barData[i].value = count

\* a body of two scale answers of one category, 4 and 1, charted as 2.5
C27_Witness ==
    /\ RawSelected
    /\ Len(BodyOf) = 2
    /\ Cardinality(ScaleAnswersIn(<< "A" >>)) = 2
    /\ SumOfScale(ScaleAnswersIn(<< "A" >>)) = 5
    /\ Len(pChart.radarData) = 1
    /\ pChart.radarData[1].A.tenths = 25

\* the entries of a section of the selected payload, none when it is absent
SectionEntries(key) ==
    IF Truthy(Get(pOnce, key)) THEN Entries(Get(pOnce, key)) ELSE << >>

\* communication, organization, leadership, analytical
CompetencyEntries ==
    SectionEntries(Key_comunicacao) \o SectionEntries(Key_organizacao)
    \o SectionEntries(Key_lideranca) \o SectionEntries(Key_analitico)

\* the entries of the payload's 0-100 score scale
ScaleEntries ==
    LET meta == Get(pOnce, Key_metadados)
    IN  IF Truthy(meta) /\ Truthy(Get(meta, Key_escala))
        THEN Entries(Get(meta, Key_escala)) ELSE << >>

Charted(v) == IF v.t = "num" THEN NumVal(v.n) ELSE 0

\* the radar series is the entries of the present competency sections in
\* section order, the bar series the entries of the score scale, values
\* that are no numbers charted as 0
AnalysisCharted ==
    /\ ~pChart.throws
    /\ Len(pChart.radarData) = Len(CompetencyEntries)
    /\ \A i \in 1..Len(CompetencyEntries) :
          /\ pChart.radarData[i].subject = ReplaceUnderscores(CompetencyEntries[i][1])
          /\ pChart.radarData[i].A = Charted(CompetencyEntries[i][2])
    /\ Len(pChart.barData) = Len(ScaleEntries)
    /\ \A i \in 1..Len(ScaleEntries) :
          /\ pChart.barData[i].name = ScaleEntries[i][1]
          /\ pChart.barData[i].value = Charted(ScaleEntries[i][2])

\* the selected payload carries a competency section or the metadata
CarriesAnalysis ==
    \E k \in { Key_comunicacao, Key_organizacao, Key_lideranca, Key_analitico,
               Key_metadados } :
        Truthy(Get(pOnce, k))

\* the selected payload carries the leadership section or the metadata
CarriesMarker ==
    Truthy(Get(pOnce, Key_lideranca)) \/ Truthy(Get(pOnce, Key_metadados))

\* C28 as stated: a payload is charted as a pre-computed analysis exactly
\* when it carries analytical sections, and then from its sections and
\* score scale only.
C28_AnalysisCharts ==
    (pChart # Unset /\ pOnce.t = "rec") =>
        /\ pChart.isAiData <=> CarriesAnalysis
        /\ CarriesAnalysis => AnalysisCharted

\* C28: a payload is charted as a pre-computed analysis exactly when it
\* carries the leadership section or the calculation metadata; then the
\* radar series has one point per entry of the present competency
\* sections, in section order, the bar series one bar per entry of the
\* 0-100 score scale, and values that are no numbers are charted as 0.
C28_MarkedAnalysisCharts ==
    (pChart # Unset /\ pOnce.t = "rec") =>
        /\ pChart.isAiData <=> CarriesMarker
        /\ CarriesMarker => AnalysisCharted

\* an analysis without the leadership section: communication and
\* analytical entries in that order, a text charted as 0, two bars
C28_Witness ==
    /\ pChart # Unset
    /\ pOnce.t = "rec"
    /\ ~Truthy(Get(pOnce, Key_lideranca))
    /\ Truthy(Get(pOnce, Key_comunicacao))
    /\ Truthy(Get(pOnce, Key_analitico))
    /\ pChart.isAiData
    /\ Len(pChart.radarData) = 4
    /\ pChart.radarData[1].subject = << "k", " ", "1" >>
    /\ pChart.radarData[2].A = 0
    /\ pChart.radarData[3].subject = << "k", " ", "4" >>
    /\ Len(pChart.barData) = 2

\* ---------------------------------------------------------------------
\* The sign-in form (specification SpecApp)
\* ---------------------------------------------------------------------

\* handleLogin is called / its request settles with an error
SignInSubmitted == loginReq = NoRequest /\ loginReq' # NoRequest
SignInFailed == loginReq # NoRequest /\ loginReq' = NoRequest /\ authEvents' = authEvents

\* C29: a failed sign-in changes neither role, candidateId, admin name and
\* email nor view, and no role is set by it; it stores a non-empty message,
\* the fixed text for a message that holds a known phrase and the raw
\* message otherwise; the form is usable again; a new attempt clears the
\* message first.
C29_FailedSignIn ==
    /\ [][ SignInFailed =>
              /\ UNCHANGED << role, candidateId, adminName, adminEmail, view, session >>
              /\ loginError' # << >>
              /\ loginError' \in { Shown_invalidCredentials, Shown_notConfirmed,
                                   Shown_alreadyRegistered, Text_failedToFetch }
              /\ ~isLoading'
              /\ (role = "none" /\ ~isCheckingSession) => AppScreen' = "login" ]_vars
    /\ [][ SignInSubmitted => (loginError' = << >> /\ isLoading') ]_vars
    /\ [](AppScreen = "login" /\ loginReq = NoRequest => ~isLoading)

\* the form after a sign-in that failed with a message holding 'Invalid
\* login credentials': nobody signed in, the fixed text shown, the button
\* enabled again
C29_Witness ==
    /\ AppScreen = "login"
    /\ role = "none"
    /\ session = NoUser
    /\ loginReq = NoRequest
    /\ loginError = Shown_invalidCredentials
    /\ ~isLoading
    /\ email = "ana@x"

\* ---------------------------------------------------------------------
\* Drafts of the test builder (specification SpecBuilder)
\* ---------------------------------------------------------------------

\* the steps of the builder: an edit of the draft, Cancel, a call of
\* handleSave, a save that the backend rejects
DraftEdited == requests'.edits = requests.edits + 1
Cancelled == builder.isCreating /\ ~builder'.isCreating /\ ~requests.save.pending
SaveClicked == requests'.saves = requests.saves + 1
SaveRejected == requests.save.pending /\ ~requests'.save.pending /\ ~SaveSucceeded

DraftOf(b) == << b.editingId, b.title, b.description, b.active, b.questions >>

\* C30: the stored tests change only in a successful save; an edit of the
\* draft leaves the test list alone; Cancel leaves list and backend alone
\* and sends nothing; a save without title sends nothing and changes no
\* state; a rejected save leaves the builder open, the draft and the list
\* as they were, and stores a message.
C30_DraftIsLocal ==
    /\ [][ testsTable' # testsTable => SaveSucceeded ]_vars
    /\ [][ DraftEdited =>
              /\ builder'.tests = builder.tests
              /\ requests'.save = requests.save ]_vars
    /\ [][ Cancelled =>
              /\ builder'.tests = builder.tests
              /\ testsTable' = testsTable
              /\ requests' = requests ]_vars
    /\ [][ (SaveClicked /\ builder.title = "") =>
              /\ builder' = builder
              /\ testsTable' = testsTable
              /\ requests'.save = requests.save
              /\ ~requests'.save.pending ]_vars
    /\ [][ SaveRejected =>
              /\ builder.isCreating
              /\ builder'.isCreating
              /\ ~builder'.isSaving
              /\ DraftOf(builder') = DraftOf(builder)
              /\ builder'.errorMsg # ""
              /\ builder'.tests = builder.tests
              /\ testsTable' = testsTable ]_vars

\* the builder after a rejected save and a save without title: open on the
\* edited draft with the message, list and backend as fetched
C30_Witness ==
    /\ requests.saves = 2
    /\ ~requests.save.pending
    /\ builder.isCreating
    /\ builder.title = ""
    /\ builder.editingId # 0
    /\ builder.errorMsg = "Erro ao salvar: Failed to fetch"
    /\ builder.tests = testsTable
    /\ testsTable \in StoredTests

\* ---------------------------------------------------------------------
\* The candidate roster: CandidatesList (specification SpecRoster)
\* ---------------------------------------------------------------------

\* what the administrator types into the name field
Names == { "Cai" }

\* a row of table profiles
ProfileRow(id, name, mail, roleName, status, testId) ==
    [id |-> id, name |-> name, email |-> mail, role |-> roleName, status |-> status,
     completed_date |-> IF status = "completed" THEN "today" ELSE "null",
     score |-> IF status = "completed" THEN "80" ELSE "null",
     assigned_test_id |-> testId]

\* the tables the roster is opened on: an administrator, a candidate in
\* any status with or without a test, and a candidate who has a test to do
StoredProfiles ==
    { << ProfileRow("a1", "Ana", "ana@x", "admin", "pending", NoTestId),
         ProfileRow("c1", "Caio", "caio@x", "candidate", st, t),
         ProfileRow("c2", "Dani", "dani@x", "candidate", "pending", "T1") >>
        : st \in { "pending", "completed" }, t \in { NoTestId } \cup TestIds }

\* mappedCandidates: the rows that are no administrator's
RECURSIVE mappedCandidates(_)
mappedCandidates(rows) ==
    IF rows = << >> THEN << >>
    ELSE (IF Head(rows).role = "admin" THEN << >>
          ELSE << [id |-> Head(rows).id, name |-> Head(rows).name,
                   email |-> Head(rows).email, status |-> Head(rows).status,
                   assignedTestId |-> Head(rows).assigned_test_id,
                   score |-> Head(rows).score,
                   completedDate |-> Head(rows).completed_date] >>)
         \o mappedCandidates(Tail(rows))

\* the update of handleSave with the status reset as well
updateProfile_resetsStatus(row, formData) ==
    [row EXCEPT !.name = formData.name,
                !.status = "pending",
                !.assigned_test_id = IF formData.testId = "" THEN NoTestId
                                     ELSE formData.testId]

\* .update({ name, assigned_test_id: formData.testId || null })
updateProfile(row, formData) ==
    [row EXCEPT !.name = formData.name,
                !.assigned_test_id = IF formData.testId = "" THEN NoTestId
                                     ELSE formData.testId]

\* { ...c, name: formData.name, assignedTestId: formData.testId }
updateEntry(c, formData) ==
    [c EXCEPT !.name = formData.name, !.assignedTestId = formData.testId]

Text_recursion == << "r", "e", "c", "u", "r", "s", "i", "o", "n" >>
SaveFailures ==
    { Text_failedToFetch,
      << "i", "n", "f", "i", "n", "i", "t", "e", " " >> \o Text_recursion,
      Text_alreadyRegistered,
      << >> }

\* the message the catch of handleSave stores
savedMessage(msg) ==
    IF Includes(msg, Text_alreadyRegistered)
    THEN << "E", "s", "t", "e", " ", "e", "-", "m", "a", "i", "l", " ", "j", "a", " ", "e", "s", "t", "a", " ", "r", "e", "g", "i", "s", "t", "r", "a", "d", "o", "." >>
    ELSE IF Includes(msg, Text_recursion)
    THEN << "E", "r", "r", "o", " ", "d", "e", " ", "B", "a", "c", "k", "-", "e", "n", "d", " ", "(", "R", "L", "S", ")" >>
    ELSE IF msg # << >> THEN msg
    ELSE << "E", "r", "r", "o", " ", "a", "o", " ", "s", "a", "l", "v", "a", "r", " ", "d", "a", "d", "o", "s", "." >>

frozenRoster == << runnerVars, role, parseVars, authVars, appVars, adminView,
                  builder, testsTable, requests >>

\* the candidate roster is mounted by a signed-in administrator and its
\* fetch is under way
InitRoster ==
    /\ profilesTable \in StoredProfiles
    /\ roster = [CandidatesListDefaults EXCEPT !.fetch = TRUE]
    /\ adminView = NoView
    /\ builder = TestsManagerDefaults
    /\ testsTable = << >>
    /\ requests = [fetch |-> FALSE, save |-> NoSave, saves |-> 0,
                   edits |-> 0]
    /\ role = "admin"
    /\ session = CHOOSE u \in Users : u.id = "a1"
    /\ announce = FALSE
    /\ sessionRead = "read"
    /\ authEvents = 0
    /\ loginReq = NoRequest
    /\ tempSession = NoUser
    /\ signups = 0
    /\ InitApp
    /\ isCheckingSession = FALSE
    /\ InitBackendIdle
    /\ InitView
    /\ InitHistory
    /\ InitParseIdle

\* the requests of fetchData settle
fetchData_settled ==
    /\ roster.fetch
    /\ \/ roster' = [roster EXCEPT !.candidates = mappedCandidates(profilesTable),
                                   !.loading = FALSE,
                                   !.fetch = FALSE]
       \/ roster' = [roster EXCEPT !.candidates = << >>,
                                   !.fetchError = << "E", "r", "r", "o", " ", "a", "o", " ", "c", "a", "r", "r", "e", "g", "a", "r", " ", "d", "a", "d", "o", "s" >>,
                                   !.loading = FALSE,
                                   !.fetch = FALSE]
    /\ UNCHANGED << profilesTable, frozenRoster >>

\* the pencil of a row, or "Novo Candidato"
openModal ==
    /\ ~roster.showModal
    /\ \/ /\ ~roster.loading
          /\ \E i \in 1..Len(roster.candidates) :
                LET c == roster.candidates[i]
                IN  roster' = [roster EXCEPT
                                 !.errorMsg = << >>,
                                 !.editingId = c.id,
                                 !.formData = [name |-> c.name,
                                               testId |-> IF c.assignedTestId = NoTestId
                                                          THEN "" ELSE c.assignedTestId],
                                 !.showModal = TRUE]
       \/ roster' = [roster EXCEPT !.errorMsg = << >>,
                                   !.editingId = "",
                                   !.formData = [name |-> "", testId |-> ""],
                                   !.showModal = TRUE]
    /\ UNCHANGED << profilesTable, frozenRoster >>

\* the X of the dialog, and Cancelar while no save is under way
closeModal ==
    /\ roster.showModal
    /\ roster' = [roster EXCEPT !.showModal = FALSE]
    /\ UNCHANGED << profilesTable, frozenRoster >>

\* the name field and the test select of the dialog
setFormData ==
    /\ roster.showModal
    /\ \/ \E n \in Names : roster' = [roster EXCEPT !.formData.name = n]
       \/ \E t \in { "" } \cup TestIds : roster' = [roster EXCEPT !.formData.testId = t]
    /\ UNCHANGED << profilesTable, frozenRoster >>

\* handleSave up to its await
CandidatesList_handleSave_submit ==
    /\ roster.showModal
    /\ ~roster.isSubmitting
    /\ roster.saves < MaxSaves
    /\ roster.editingId = "" => roster.formData.name # ""
    /\ roster' = [roster EXCEPT
                    !.isSubmitting = TRUE,
                    !.errorMsg = << >>,
                    !.save = [pending |-> TRUE, editingId |-> roster.editingId,
                              formData |-> roster.formData,
                              candidates |-> roster.candidates],
                    !.saves = roster.saves + 1]
    /\ UNCHANGED << profilesTable, frozenRoster >>

\* the update or the sign-up settles and handleSave continues with the
\* values it captured when it was called; a sign-up creates the profile
CandidatesList_handleSave_settled ==
    /\ roster.save.pending
    /\ LET s == roster.save
           created == [id |-> NewCandidate.id, name |-> s.formData.name,
                       email |-> NewCandidate.email, status |-> "pending",
                       assignedTestId |-> s.formData.testId,
                       score |-> "undefined", completedDate |-> "undefined"]
       IN  \/ /\ s.editingId # ""
              /\ profilesTable' =
                    [ i \in 1..Len(profilesTable) |->
                        IF profilesTable[i].id = s.editingId
                        THEN updateProfile(profilesTable[i], s.formData)
                        ELSE profilesTable[i] ]
              /\ roster' = [roster EXCEPT
                              !.candidates =
                                  [ i \in 1..Len(s.candidates) |->
                                      IF s.candidates[i].id = s.editingId
                                      THEN updateEntry(s.candidates[i], s.formData)
                                      ELSE s.candidates[i] ],
                              !.showModal = FALSE,
                              !.isSubmitting = FALSE,
                              !.save = NoRosterSave]
           \/ /\ s.editingId = ""
              /\ \A i \in 1..Len(profilesTable) : profilesTable[i].id # NewCandidate.id
              /\ profilesTable' =
                    << ProfileRow(NewCandidate.id, s.formData.name, NewCandidate.email,
                                  "candidate", "pending",
                                  IF s.formData.testId = "" THEN NoTestId
                                  ELSE s.formData.testId) >>
                    \o profilesTable
              /\ roster' = [roster EXCEPT
                              !.candidates = << created >> \o s.candidates,
                              !.showModal = FALSE,
                              !.isSubmitting = FALSE,
                              !.save = NoRosterSave]
           \/ /\ \E msg \in SaveFailures :
                    roster' = [roster EXCEPT !.errorMsg = savedMessage(msg),
                                             !.isSubmitting = FALSE,
                                             !.save = NoRosterSave]
              /\ UNCHANGED profilesTable
    /\ UNCHANGED frozenRoster

\* a candidate of the table finishes the test: submitTest's profile update
candidateCompletes ==
    /\ \E i \in 1..Len(profilesTable) :
          /\ profilesTable[i].role = "candidate"
          /\ profilesTable[i].status = "pending"
          /\ profilesTable[i].assigned_test_id # NoTestId
          /\ profilesTable' = [profilesTable EXCEPT ![i].status = "completed",
                                                    ![i].completed_date = "today"]
    /\ UNCHANGED << roster, frozenRoster >>

NextRoster ==
    \/ fetchData_settled
    \/ openModal
    \/ closeModal
    \/ setFormData
    \/ CandidatesList_handleSave_submit
    \/ CandidatesList_handleSave_settled
    \/ candidateCompletes

SpecRoster == InitRoster /\ [][NextRoster]_vars

\* the update of an edit settles, with and without an error
EditSettled == roster.save.pending /\ ~roster'.save.pending /\ roster.save.editingId # ""
EditFailed == EditSettled /\ roster'.errorMsg # << >>

KeptOfRow(r) == << r.id, r.status, r.completed_date, r.score, r.role, r.email >>
KeptOfEntry(c) == << c.id, c.status, c.completedDate, c.score, c.email >>

\* C26: an edit that settles changes no profile's status, completion date,
\* score, role or email, neither in table profiles nor in the roster, and
\* no row or entry other than the edited one at all; the edited profile
\* gets the form's name and test; an edit that fails changes neither table
\* nor roster, leaves the dialog as it is and stores a message.
C26_EditFrame ==
    /\ [][ EditSettled =>
              /\ Len(profilesTable') = Len(profilesTable)
              /\ \A i \in 1..Len(profilesTable) :
                    /\ KeptOfRow(profilesTable'[i]) = KeptOfRow(profilesTable[i])
                    /\ profilesTable[i].id # roster.save.editingId
                       => profilesTable'[i] = profilesTable[i]
              /\ Len(roster'.candidates) = Len(roster.candidates)
              /\ \A i \in 1..Len(roster.candidates) :
                    /\ KeptOfEntry(roster'.candidates[i]) = KeptOfEntry(roster.candidates[i])
                    /\ roster.candidates[i].id # roster.save.editingId
                       => roster'.candidates[i] = roster.candidates[i]
              /\ ~roster'.isSubmitting ]_vars
    /\ [][ (EditSettled /\ ~EditFailed) =>
              /\ ~roster'.showModal
              /\ \A i \in 1..Len(profilesTable) :
                    profilesTable[i].id = roster.save.editingId =>
                        /\ profilesTable'[i].name = roster.save.formData.name
                        /\ profilesTable'[i].assigned_test_id \in
                              { roster.save.formData.testId, NoTestId }
              /\ \A i \in 1..Len(roster.candidates) :
                    roster.candidates[i].id = roster.save.editingId =>
                        roster'.candidates[i].name = roster.save.formData.name ]_vars
    /\ [][ EditFailed =>
              /\ profilesTable' = profilesTable
              /\ roster'.candidates = roster.candidates
              /\ roster'.showModal = roster.showModal
              /\ roster'.formData = roster.formData
              /\ roster'.editingId = roster.editingId ]_vars

\* the roster after an edit of a completed candidate gave it a new name:
\* profile and entry still completed, with date and score
C26_Witness ==
    /\ roster.saves = 1
    /\ ~roster.save.pending
    /\ ~roster.showModal
    /\ \E i \in 1..Len(profilesTable) :
          /\ profilesTable[i].id = "c1"
          /\ profilesTable[i].name = "Cai"
          /\ profilesTable[i].status = "completed"
          /\ profilesTable[i].completed_date = "today"
    /\ \E i \in 1..Len(roster.candidates) :
          /\ roster.candidates[i].id = "c1"
          /\ roster.candidates[i].name = "Cai"
          /\ roster.candidates[i].status = "completed"

====
